---- MODULE Spec2Model ----
(***************************************************************************)
(* The adaptive policy loop of src/src/run.mjs: strategy selection,        *)
(* candidate evaluation, memory update, exploration decay and the          *)
(* escalation decision, driven by main() over the rounds (epochs) of a run.*)
(*                                                                         *)
(* Numbers.  JavaScript numbers are modelled as fixed-point integers:      *)
(*   score, conversionProbability   hundredths  (Number(x.toFixed(2)))     *)
(*   totalScore, avgScore           1e-4 units  (Number(x.toFixed(4)))     *)
(*   policy.epsilon, .minEpsilon    1e-5 units  (one digit finer than the  *)
(*                                  4 decimals decayExploration rounds to, *)
(*                                  so a loaded value can lie off the grid)*)
(*   policy.decay                   1e-3 units                             *)
(* toFixed rounds to the nearest representable decimal, the larger one on  *)
(* an exact tie; the binary representation error of doubles is not         *)
(* modelled.                                                               *)
(*                                                                         *)
(* The post-call webhook server (a program of its own, started apart from  *)
(* the run) is modelled by the variables of the tuple webhook.             *)
(***************************************************************************)
EXTENDS Integers, Sequences, FiniteSets, TLC

VARIABLES
    memoryFile,           \* data/memory.json on disk
    memory,               \* main: const memory = await readJson(MEMORY_PATH)
    loaded,               \* the memory as the first run read it from disk
    invocation,           \* how many times the program has been started
    leads,                \* main: const leads = await readJson(LEADS_PATH)
    evaluator,            \* the LLM service's response per (lead id, strategy)
    evaluatorConfig,      \* getEvaluatorConfig(): EVALUATOR_MODE and EVALUATOR_API_KEY
    epochs,               \* --epochs
    warmupEpochs,         \* --warmupEpochs
    voiceChannelEnabled,  \* --voice
    minEpochForVoice,     \* --voiceFromEpoch
    voiceMode,            \* VOICE_MODE and the provider's behaviour
    epoch,                \* loop variable of the outer for
    leadIdx,              \* position of the inner for-of iterator (1-based)
    events,               \* main: const events = [] of the current epoch
    epochScores,          \* main: const epochScores = [] of the current epoch
    rounds,               \* main: const rounds = []
    voiceFollowups,       \* main: const voiceFollowups = []
    strategy,             \* the strategy selected for the current lead
    candidateScores,      \* the candidate map of the current lead
    clock,                \* the wall clock read by new Date()
    outboundRequests,     \* number of fetch calls to the outbound-call URL
    artifactsFile,        \* data/voice-calls-latest.json: status of the result last written
    dispatcherCalls,      \* the calls of startElevenLabsOutboundCall: round and lead
    decays,               \* number of decayExploration calls since the first load
    pc,                   \* position of main()
    once,                 \* webhook server: --once
    webhookSecret,        \* webhook server: ELEVENLABS_WEBHOOK_SECRET, trimmed
    signatureToleranceSeconds, \* webhook server: ELEVENLABS_WEBHOOK_TOLERANCE_SECONDS
    server,               \* webhook server: stopped, listening, closing or exited
    request,              \* webhook server: the request handled last
    responses,            \* webhook server: the responses sent, in order
    latestFile,           \* data/post-call-latest.json
    eventsFile,           \* data/post-call-events.ndjson, one entry per line
    learningFile,         \* data/post-call-learning.json, Null while there is no file
    handlers              \* webhook server: the end handlers started, in order of arrival

vars == <<memoryFile, memory, loaded, invocation, leads, evaluator, evaluatorConfig,
          epochs, warmupEpochs,
          voiceChannelEnabled, minEpochForVoice, voiceMode, epoch, leadIdx,
          events, epochScores, rounds, voiceFollowups, strategy,
          candidateScores, clock, outboundRequests, artifactsFile, dispatcherCalls,
          decays, pc,
          once, webhookSecret, signatureToleranceSeconds, server, request,
          responses, latestFile, eventsFile, learningFile, handlers>>

\* the state of the webhook server and of the files it writes
webhook == <<once, webhookSecret, signatureToleranceSeconds, server, request,
             responses, latestFile, eventsFile, learningFile, handlers>>

(***************************************************************************)
(* Catalogs and constants of run.mjs                                       *)
(***************************************************************************)
STRATEGIES == <<"consultative", "social_proof", "urgent_offer">>

StrategySet == {STRATEGIES[i] : i \in 1..Len(STRATEGIES)}

TEXT_CHANNELS == {"instagram_dm", "whatsapp"}

\* if (memory.history.length > 200) memory.history = memory.history.slice(-200)
HISTORY_LIMIT == 200

\* the value of a property that is absent from a JavaScript object
Undefined == "undefined"

(***************************************************************************)
(* Fixed-point arithmetic                                                  *)
(***************************************************************************)
\* nearest integer to n / d for n >= 0, d > 0; an exact tie goes up
RoundDiv(n, d) == (2 * n + d) \div (2 * d)

\* Number(q.toFixed(4)) of the rational q = num / den given in 1e-4 units
ToFixed4(q) == RoundDiv(q.num, q.den)

Rat(n, d) == [num |-> n, den |-> d]

\* a score in hundredths expressed in the 1e-4 units of totalScore
ScoreUnits(score) == score * 100

Max(a, b) == IF a >= b THEN a ELSE b

Min(a, b) == IF a <= b THEN a ELSE b

EpsDen == 10 * 10000

DecayDen == 10 * 100

\* the JavaScript object {}
EmptyMap == [k \in {} |-> k]

(***************************************************************************)
(* reset.mjs: the baseline memory                                          *)
(***************************************************************************)
INITIAL_MEMORY ==
    [ runs |-> 0,
      policy |-> [epsilon |-> 45000, decay |-> 700, minEpsilon |-> 5000],
      strategyStats |->
          [s \in StrategySet |-> [uses |-> 0, totalScore |-> 0, avgScore |-> 0]],
      objectionPolicy |-> EmptyMap,
      history |-> << >> ]

(***************************************************************************)
(* PolicySelector                                                          *)
(***************************************************************************)
\* getAverage(stats): the quotient as a rational, in 1e-4 units
getAverage(stats) ==
    IF stats.uses > 0 THEN Rat(stats.totalScore, stats.uses) ELSE Rat(0, 1)

\* memory.strategyStats[strategy]?.avgScore ?? 0
AvgOf(mem, s) ==
    IF s \in DOMAIN mem.strategyStats THEN mem.strategyStats[s].avgScore ELSE 0

\* the loop with >= for >: the last of several equal averages wins
RECURSIVE BestByAverageLastWins(_, _, _, _, _)
BestByAverageLastWins(mem, i, best, bestScore, hasBest) ==
    IF i > Len(STRATEGIES) THEN best
    ELSE LET avg == AvgOf(mem, STRATEGIES[i])
         IN  IF (~hasBest) \/ avg >= bestScore
             THEN BestByAverageLastWins(mem, i + 1, STRATEGIES[i], avg, TRUE)
             ELSE BestByAverageLastWins(mem, i + 1, best, bestScore, hasBest)

\* run.mjs 63-72: the for loop of pickBestStrategy from catalog position i
\* on; hasBest is FALSE while bestScore is still -Infinity
RECURSIVE BestByAverage(_, _, _, _, _)
BestByAverage(mem, i, best, bestScore, hasBest) ==
    IF i > Len(STRATEGIES) THEN best
    ELSE LET avg == AvgOf(mem, STRATEGIES[i])
         IN  IF (~hasBest) \/ avg > bestScore
             THEN BestByAverage(mem, i + 1, STRATEGIES[i], avg, TRUE)
             ELSE BestByAverage(mem, i + 1, best, bestScore, hasBest)

\* memory.objectionPolicy?.[objectionType]
Mapped(mem, objectionType) ==
    IF objectionType \in DOMAIN mem.objectionPolicy
    THEN mem.objectionPolicy[objectionType]
    ELSE Undefined

\* a JavaScript string value that is truthy
Truthy(v) == v # Undefined /\ v # ""

\* pickBestStrategy returning whatever entry the policy holds
pickBestStrategyAnyEntry(mem, objectionType) ==
    LET mapped == Mapped(mem, objectionType)
    IN  IF Truthy(mapped)
        THEN mapped
        ELSE BestByAverage(mem, 1, STRATEGIES[1], 0, FALSE)

\* pickBestStrategy that looks at the averages alone
pickBestStrategyByAverage(mem, objectionType) ==
    BestByAverage(mem, 1, STRATEGIES[1], 0, FALSE)

\* run.mjs 59-73
pickBestStrategy(mem, objectionType) ==
    LET mapped == Mapped(mem, objectionType)
    IN  IF Truthy(mapped) /\ mapped \in StrategySet
        THEN mapped
        ELSE BestByAverage(mem, 1, STRATEGIES[1], 0, FALSE)

\* the rotation started one position late
pickWarmupStrategyShifted(index) == STRATEGIES[((index + 1) % Len(STRATEGIES)) + 1]

\* index is 0-based, as events.length is
pickWarmupStrategy(index) == STRATEGIES[(index % Len(STRATEGIES)) + 1]

(***************************************************************************)
(* Exploration decay                                                       *)
(***************************************************************************)
\* epsilon read from the wrong place, so that the default 0.2 is decayed
decayedEpsilonOfDefault(policy) ==
    LET product == 20000 * policy.decay
        floor   == policy.minEpsilon * DecayDen
        m       == Max(floor, product)
    IN  10 * RoundDiv(m, 10 * DecayDen)

\* the floor minEpsilon left out
decayedEpsilonNoFloor(policy) ==
    10 * RoundDiv(policy.epsilon * policy.decay, 10 * DecayDen)

\* Number(Math.max(minEpsilon, epsilon * decay).toFixed(4)), in 1e-5 units:
\* the product and the floor are compared in units of 1 / (EpsDen * DecayDen)
decayedEpsilon(policy) ==
    LET product == policy.epsilon * policy.decay
        floor   == policy.minEpsilon * DecayDen
        m       == Max(floor, product)
    IN  10 * RoundDiv(m, 10 * DecayDen)

\* run.mjs 111-116
decayExploration(mem) ==
    [mem EXCEPT !.policy.epsilon = decayedEpsilon(mem.policy)]

(***************************************************************************)
(* MemoryUpdater                                                           *)
(***************************************************************************)
\* the average taken before the new score is added to the sum
updateStatsStaleAverage(stats, result) ==
    LET uses  == stats.uses + 1
        total == ToFixed4(Rat(stats.totalScore + ScoreUnits(result.score), 1))
    IN  [ uses |-> uses, totalScore |-> total,
          avgScore |-> ToFixed4(getAverage([stats EXCEPT !.uses = uses])) ]

\* run.mjs 80-83: the statistics of the used strategy
updateStats(stats, result) ==
    LET uses  == stats.uses + 1
        total == ToFixed4(Rat(stats.totalScore + ScoreUnits(result.score), 1))
        next  == [uses |-> uses, totalScore |-> total, avgScore |-> 0]
    IN  [next EXCEPT !.avgScore = ToFixed4(getAverage(next))]

\* the loop with >= for >: a later candidate with an equal score wins
RECURSIVE BestOfCandidatesLastWins(_, _, _, _)
BestOfCandidatesLastWins(cands, i, best, bestScore) ==
    IF i > Len(STRATEGIES) THEN best
    ELSE IF STRATEGIES[i] \in DOMAIN cands /\ cands[STRATEGIES[i]].score >= bestScore
         THEN BestOfCandidatesLastWins(cands, i + 1, STRATEGIES[i], cands[STRATEGIES[i]].score)
         ELSE BestOfCandidatesLastWins(cands, i + 1, best, bestScore)

\* run.mjs 87-92: the loop over Object.entries(candidateScores), whose
\* insertion order is the catalog order (main fills it in a loop over STRATEGIES)
RECURSIVE BestOfCandidates(_, _, _, _)
BestOfCandidates(cands, i, best, bestScore) ==
    IF i > Len(STRATEGIES) THEN best
    ELSE IF STRATEGIES[i] \in DOMAIN cands /\ cands[STRATEGIES[i]].score > bestScore
         THEN BestOfCandidates(cands, i + 1, STRATEGIES[i], cands[STRATEGIES[i]].score)
         ELSE BestOfCandidates(cands, i + 1, best, bestScore)

\* run.mjs 85-92
bestForLead(strat, result, cands) ==
    BestOfCandidates(cands, 1, strat, result.score)

\* run.mjs 95-104: the history entry; the response preview is the rendered
\* template of (strategy, lead), kept as that pair
HistoryEvent(lead, strat, result, ep, now) ==
    [ timestamp |-> now,
      epoch |-> ep,
      leadId |-> lead.id,
      objectionType |-> lead.objectionType,
      strategy |-> strat,
      score |-> result.score,
      conversionProbability |-> result.conversionProbability,
      responsePreview |-> <<strat, lead.id>> ]

\* history.slice(-HISTORY_LIMIT)
SliceLast(h, n) == IF Len(h) > n THEN SubSeq(h, Len(h) - n + 1, Len(h)) ELSE h

\* the cap enforced with slice(0, 200): the newest entries are dropped
pushHistoryKeepsOldest(history, event) ==
    LET pushed == Append(history, event)
    IN  IF Len(pushed) > HISTORY_LIMIT THEN SubSeq(pushed, 1, HISTORY_LIMIT) ELSE pushed

\* run.mjs 95-108
pushHistory(history, event) ==
    LET pushed == Append(history, event)
    IN  IF Len(pushed) > HISTORY_LIMIT THEN SliceLast(pushed, HISTORY_LIMIT) ELSE pushed

\* the statistics of the best candidate are updated, not those of the used one
updateMemoryCreditsBest(mem, lead, strat, result, ep, cands, now) ==
    [ mem EXCEPT
        !.strategyStats =
            [@ EXCEPT ![bestForLead(strat, result, cands)] = updateStats(@, result)],
        !.objectionPolicy =
            (lead.objectionType :> bestForLead(strat, result, cands)) @@ @,
        !.history = pushHistory(@, HistoryEvent(lead, strat, result, ep, now)) ]

\* the exploration rate decayed with every update, not once per round
updateMemoryDecaysToo(mem, lead, strat, result, ep, cands, now) ==
    [ mem EXCEPT
        !.strategyStats = [@ EXCEPT ![strat] = updateStats(@, result)],
        !.objectionPolicy =
            (lead.objectionType :> bestForLead(strat, result, cands)) @@ @,
        !.history = pushHistory(@, HistoryEvent(lead, strat, result, ep, now)),
        !.policy.epsilon = decayedEpsilon(mem.policy) ]

\* the policy entry written under the lead's channel, not its category
updateMemoryKeyedByChannel(mem, lead, strat, result, ep, cands, now) ==
    [ mem EXCEPT
        !.strategyStats = [@ EXCEPT ![strat] = updateStats(@, result)],
        !.objectionPolicy =
            (lead.channel :> bestForLead(strat, result, cands)) @@ @,
        !.history = pushHistory(@, HistoryEvent(lead, strat, result, ep, now)) ]

\* an update that leaves an existing policy entry as it is
updateMemoryKeepsEntry(mem, lead, strat, result, ep, cands, now) ==
    [ mem EXCEPT
        !.strategyStats = [@ EXCEPT ![strat] = updateStats(@, result)],
        !.objectionPolicy =
            @ @@ (lead.objectionType :> bestForLead(strat, result, cands)),
        !.history = pushHistory(@, HistoryEvent(lead, strat, result, ep, now)) ]

\* run.mjs 79-109
updateMemory(mem, lead, strat, result, ep, cands, now) ==
    [ mem EXCEPT
        !.strategyStats = [@ EXCEPT ![strat] = updateStats(@, result)],
        !.objectionPolicy =
            (lead.objectionType :> bestForLead(strat, result, cands)) @@ @,
        !.history = pushHistory(@, HistoryEvent(lead, strat, result, ep, now)) ]

(***************************************************************************)
(* Round helpers                                                           *)
(***************************************************************************)
RECURSIVE SumSeq(_)
SumSeq(s) == IF s = << >> THEN 0 ELSE Head(s) + SumSeq(Tail(s))

\* average(values) followed by Number(x.toFixed(3)), in 1e-3 units
\* (scores are hundredths: the quotient is scaled by 10)
epochAverage(values) ==
    IF Len(values) = 0 THEN 0 ELSE RoundDiv(10 * SumSeq(values), Len(values))

\* run.mjs 276-282: the summary's delta, in 1e-3 units
summaryDelta(rs) ==
    IF Len(rs) = 0 THEN 0 ELSE rs[Len(rs)].avgScore - rs[1].avgScore

\* Object.entries(candidateScores).sort((a, b) => b[1].score - a[1].score)[0]:
\* the sort is stable, so the first catalog strategy among the highest scores
RECURSIVE FirstMax(_, _, _)
FirstMax(cands, i, best) ==
    IF i > Len(STRATEGIES) THEN best
    ELSE IF cands[STRATEGIES[i]].score > cands[best].score
         THEN FirstMax(cands, i + 1, STRATEGIES[i])
         ELSE FirstMax(cands, i + 1, best)

bestCandidate(cands) == FirstMax(cands, 2, STRATEGIES[1])

(***************************************************************************)
(* EscalationDecider and the voice dispatcher                              *)
(***************************************************************************)
Digits == {"0", "1", "2", "3", "4", "5", "6", "7", "8", "9"}

Whitespace == {" "}

\* String.prototype.trim on a sequence of characters
RECURSIVE TrimLeft(_)
TrimLeft(cs) ==
    IF cs # << >> /\ Head(cs) \in Whitespace THEN TrimLeft(Tail(cs)) ELSE cs

RECURSIVE TrimRight(_)
TrimRight(cs) ==
    IF cs # << >> /\ cs[Len(cs)] \in Whitespace
    THEN TrimRight(SubSeq(cs, 1, Len(cs) - 1))
    ELSE cs

Trim(cs) == TrimRight(TrimLeft(cs))

\* a phone number is [type, chars]: typeof lead.phoneNumber and its characters
NoPhone == [type |-> "undefined", chars |-> << >>]

Phone(cs) == [type |-> "string", chars |-> cs]

\* String(lead.channel ?? '').toLowerCase() over the channel names in use
ToLowerCase(str) ==
    CASE str = "Instagram_DM" -> "instagram_dm"
      [] str = "WhatsApp" -> "whatsapp"
      [] str = "Skeptical" -> "skeptical"
      [] OTHER -> str

\* shouldEscalateToVoice without the round condition
shouldEscalateToVoiceAnyRound(lead, result, ep, minEpoch) ==
    /\ ToLowerCase(lead.channel) \in TEXT_CHANNELS
    /\ lead.phoneNumber.type = "string"
    /\ Len(Trim(lead.phoneNumber.chars)) > 0
    /\ \/ ToLowerCase(lead.sentiment) \in {"skeptical", "hesitant", "overwhelmed"}
       \/ result.conversionProbability < 58

\* shouldEscalateToVoice without the phone condition
shouldEscalateToVoiceAnyPhone(lead, result, ep, minEpoch) ==
    /\ ep >= minEpoch
    /\ ToLowerCase(lead.channel) \in TEXT_CHANNELS
    /\ \/ ToLowerCase(lead.sentiment) \in {"skeptical", "hesitant", "overwhelmed"}
       \/ result.conversionProbability < 58

\* run.mjs 127-139
shouldEscalateToVoice(lead, result, ep, minEpoch) ==
    LET channel        == ToLowerCase(lead.channel)
        hasTextChannel == channel \in TEXT_CHANNELS
        hasPhone       == lead.phoneNumber.type = "string"
                          /\ Len(Trim(lead.phoneNumber.chars)) > 0
        sentiment      == ToLowerCase(lead.sentiment)
        frictionSignal == \/ sentiment = "skeptical"
                          \/ sentiment = "hesitant"
                          \/ sentiment = "overwhelmed"
                          \/ result.conversionProbability < 58
    IN  ep >= minEpoch /\ hasTextChannel /\ hasPhone /\ frictionSignal

\* cleaned = trimmed.replace(/[()\-\s]/g, '')
Cleaned(cs) == SelectSeq(cs, LAMBDA c : c \notin ({"(", ")", "-"} \cup Whitespace))

\* normalizeE164Phone without the test on the number of digits
normalizeE164PhoneAnyLength(raw) ==
    LET cleaned == Cleaned(Trim(raw.chars))
        digits  == Tail(cleaned)
    IN  IF cleaned = << >> \/ Head(cleaned) # "+" THEN Undefined
        ELSE IF digits = << >> \/ \E i \in 1..Len(digits) : digits[i] \notin Digits
             THEN Undefined
        ELSE "e164"

\* elevenlabs-outbound.mjs 16-25; null is Undefined
normalizeE164Phone(raw) ==
    LET trimmed == Trim(raw.chars)
        cleaned == Cleaned(trimmed)
        digits  == Tail(cleaned)
    IN  IF trimmed = << >> THEN Undefined
        ELSE IF cleaned = << >> \/ Head(cleaned) # "+" THEN Undefined
        ELSE IF digits = << >> \/ \E i \in 1..Len(digits) : digits[i] \notin Digits
             THEN Undefined
        ELSE IF Len(digits) < 8 \/ Len(digits) > 15 THEN Undefined
        ELSE "e164"

\* the value a call returns (ok, status, mode) and what it has done on the
\* way: fetched, a request was sent to the outbound-call URL; written,
\* writeArtifacts has stored the result
CallResult(ok, status, mode, fetched, written) ==
    [ok |-> ok, status |-> status, mode |-> mode, fetched |-> fetched, written |-> written]

\* startElevenLabsOutboundCall that sends the request in live mode whenever
\* an API key is set
startElevenLabsOutboundCallKeyOnly(toNumber, env) ==
    IF normalizeE164Phone(toNumber) = Undefined
    THEN CallResult(FALSE, "INVALID_PHONE", Undefined, FALSE, FALSE)
    ELSE IF env.mode # "live"
    THEN CallResult(TRUE, "SIMULATED", env.mode, FALSE, TRUE)
    ELSE IF ~env.apiKey
    THEN CallResult(FALSE, "MISSING_CONFIG", Undefined, FALSE, FALSE)
    ELSE IF env.provider = "network_error"
    THEN CallResult(FALSE, "THROWN", Undefined, TRUE, FALSE)
    ELSE IF env.provider = "ok"
    THEN CallResult(TRUE, "OK", Undefined, TRUE, TRUE)
    ELSE CallResult(FALSE, "HTTP_ERROR", Undefined, TRUE, TRUE)

\* startElevenLabsOutboundCall that looks at the number only when it is
\* about to send the request
startElevenLabsOutboundCallValidatesLate(toNumber, env) ==
    IF env.mode # "live"
    THEN CallResult(TRUE, "SIMULATED", env.mode, FALSE, TRUE)
    ELSE IF ~env.apiKey \/ ~env.agentId \/ ~env.agentPhoneNumberId
    THEN CallResult(FALSE, "MISSING_CONFIG", Undefined, FALSE, FALSE)
    ELSE IF env.provider = "network_error"
    THEN CallResult(FALSE, "THROWN", Undefined, TRUE, FALSE)
    ELSE IF normalizeE164Phone(toNumber) = Undefined
    THEN CallResult(FALSE, "INVALID_PHONE", Undefined, TRUE, TRUE)
    ELSE IF env.provider = "ok"
    THEN CallResult(TRUE, "OK", Undefined, TRUE, TRUE)
    ELSE CallResult(FALSE, "HTTP_ERROR", Undefined, TRUE, TRUE)

\* elevenlabs-outbound.mjs 89-173: the outcomes of one call, given the
\* environment env (VOICE_MODE trimmed, which ELEVENLABS_* settings are
\* set, and what the provider does); "THROWN" is a rejected
\* promise (fetch failing with a network error)
startElevenLabsOutboundCall(toNumber, env) ==
    IF normalizeE164Phone(toNumber) = Undefined
    THEN CallResult(FALSE, "INVALID_PHONE", Undefined, FALSE, FALSE)
    ELSE IF env.mode # "live"
    THEN CallResult(TRUE, "SIMULATED", env.mode, FALSE, TRUE)
    ELSE IF ~env.apiKey \/ ~env.agentId \/ ~env.agentPhoneNumberId
    THEN CallResult(FALSE, "MISSING_CONFIG", Undefined, FALSE, FALSE)
    ELSE IF env.provider = "network_error"
    THEN CallResult(FALSE, "THROWN", Undefined, TRUE, FALSE)
    ELSE IF env.provider = "ok"
    THEN CallResult(TRUE, "OK", Undefined, TRUE, TRUE)
    ELSE CallResult(FALSE, "HTTP_ERROR", Undefined, TRUE, TRUE)

\* maybeStartVoiceFollowup that calls the dispatcher whatever --voice says
maybeStartVoiceFollowupIgnoresSwitch(enabled, lead, env) ==
    LET callResult == startElevenLabsOutboundCall(lead.phoneNumber, env)
    IN  [ attempted |-> TRUE,
          ok |-> callResult.ok,
          status |-> callResult.status,
          mode |-> IF callResult.mode # Undefined THEN callResult.mode ELSE env.mode ]

\* run.mjs 141-171
maybeStartVoiceFollowup(enabled, lead, env) ==
    IF ~enabled
    THEN [attempted |-> FALSE, reason |-> "VOICE_CHANNEL_DISABLED"]
    ELSE LET callResult == startElevenLabsOutboundCall(lead.phoneNumber, env)
         IN  [ attempted |-> TRUE,
               ok |-> callResult.ok,
               status |-> callResult.status,
               mode |-> IF callResult.mode # Undefined THEN callResult.mode ELSE env.mode ]

(***************************************************************************)
(* The evaluator (llm-evaluator.mjs)                                       *)
(***************************************************************************)
\* an EvaluationResult as evaluateLeadAdaptive returns it, notes being null
Result(score, conversionProbability, source) ==
    [ score |-> score, conversionProbability |-> conversionProbability,
      source |-> source, notes |-> Undefined ]

\* getEvaluatorConfig 7-21: the mode and whether an API key is set
EvaluatorConfig(mode, apiKey) == [mode |-> mode, apiKey |-> apiKey]

\* llm-evaluator.mjs 23-27
shouldUseLlm(cfg) ==
    IF cfg.mode = "rule" THEN FALSE
    ELSE IF cfg.mode = "llm" THEN TRUE
    ELSE cfg.apiKey

\* what the request to the LLM service comes to: the fetch is aborted by the
\* timeout or rejects, the status is not OK, the body is not JSON, the
\* message content holds no JSON object, or it holds an object whose score
\* and conversionProbability convert to the given numbers (Finite(n), n in
\* 1e-3 units, or NaN for a missing or non-numeric field)
LlmFailure(kind) == [kind |-> kind]

LlmPayload(score, conversionProbability, notes) ==
    [ kind |-> "payload", score |-> score,
      conversionProbability |-> conversionProbability, notes |-> notes ]

Finite(n) == [finite |-> TRUE, units |-> n]

NaN == [finite |-> FALSE]

\* null where an object is expected
Null == [kind |-> "null"]

\* normalizeScoring without the bounds
normalizeScoringUnbounded(raw) ==
    IF raw = Null THEN Null
    ELSE IF ~raw.score.finite \/ ~raw.conversionProbability.finite THEN Null
    ELSE [ score |-> RoundDiv(raw.score.units, 10),
           conversionProbability |-> RoundDiv(raw.conversionProbability.units, 10),
           notes |-> raw.notes ]

\* llm-evaluator.mjs 50-66; raw is the parsed object or null,
\* the result has score and conversionProbability in hundredths
normalizeScoring(raw) ==
    IF raw = Null THEN Null
    ELSE IF ~raw.score.finite \/ ~raw.conversionProbability.finite THEN Null
    ELSE LET boundedScore == Max(1000, Min(10000, raw.score.units))
             boundedProb  == Max(50, Min(950, raw.conversionProbability.units))
         IN  [ score |-> RoundDiv(boundedScore, 10),
               conversionProbability |-> RoundDiv(boundedProb, 10),
               notes |-> raw.notes ]

\* run.mjs 18-37 and 118-120: what evaluateByRules looks for in the rendered
\* response. Every template names the lead and a week; only consultative
\* quotes the goal; consultative and social_proof speak of a step. The
\* lead's own texts are taken not to add a match.
buildResponse(strat, lead) ==
    [ name |-> TRUE,
      goal |-> strat = "consultative",
      step |-> strat \in {"consultative", "social_proof"},
      week |-> TRUE ]

\* llm-evaluator.mjs 103-112, in hundredths
objectionBoost(objectionType, strat) ==
    LET row == CASE objectionType = "price"      -> <<100, 70, 20>>
                 [] objectionType = "trust"      -> <<80, 120, 20>>
                 [] objectionType = "timing"     -> <<60, 40, 110>>
                 [] objectionType = "results"    -> <<70, 100, 30>>
                 [] objectionType = "complexity" -> <<110, 50, 10>>
                 [] objectionType = "urgency"    -> <<50, 40, 100>>
                 [] OTHER -> <<20, 20, 20>>
        col == CHOOSE i \in 1..Len(STRATEGIES) : STRATEGIES[i] = strat
    IN  row[col]

\* llm-evaluator.mjs 100-138, in hundredths
evaluateByRules(lead, strat, response) ==
    LET score == 550 + objectionBoost(lead.objectionType, strat)
                     + (IF response.name THEN 40 ELSE 0)
                     + (IF response.goal THEN 60 ELSE 0)
                     + (IF response.step THEN 40 ELSE 0)
                     + (IF response.week THEN 20 ELSE 0)
                     + (IF lead.sentiment \in {"skeptical", "overwhelmed"} THEN -20 ELSE 0)
                     + (IF strat = "urgent_offer"
                           /\ lead.sentiment \in {"skeptical", "overwhelmed"}
                        THEN -30 ELSE 0)
        bounded == Max(100, Min(1000, score))
        conversionProbability == Max(5, Min(92, RoundDiv(bounded - 300, 8)))
    IN  Result(bounded, conversionProbability, "rule")

\* llm-evaluator.mjs 140-214 on the service's response; error is the kind
\* of the error text
evaluateByLlm(response) ==
    CASE response.kind \in {"timeout", "network_error"} ->
            [ok |-> FALSE, error |-> "LLM request failed"]
      [] response.kind = "http_error" ->
            [ok |-> FALSE, error |-> "LLM HTTP"]
      [] response.kind = "not_json" ->
            [ok |-> FALSE, error |-> "LLM response is not JSON"]
      [] OTHER ->
            LET json == IF response.kind = "payload" THEN response ELSE Null
                normalized == normalizeScoring(json)
            IN  IF normalized = Null
                THEN [ok |-> FALSE, error |-> "LLM returned invalid scoring payload"]
                ELSE [ ok |-> TRUE,
                       value |-> [ score |-> normalized.score,
                                   conversionProbability |-> normalized.conversionProbability,
                                   source |-> "llm", notes |-> normalized.notes ] ]

\* evaluateLeadAdaptive whose fallback keeps the tag and notes of the rule path
evaluateLeadAdaptivePlainRule(cfg, lead, strat, response, llmResponse) ==
    IF ~shouldUseLlm(cfg) THEN evaluateByRules(lead, strat, response)
    ELSE LET llm == evaluateByLlm(llmResponse)
         IN  IF llm.ok THEN llm.value ELSE evaluateByRules(lead, strat, response)

\* llm-evaluator.mjs 216-234
evaluateLeadAdaptive(cfg, lead, strat, response, llmResponse) ==
    IF ~shouldUseLlm(cfg) THEN evaluateByRules(lead, strat, response)
    ELSE LET llm == evaluateByLlm(llmResponse)
         IN  IF llm.ok THEN llm.value
             ELSE [ evaluateByRules(lead, strat, response) EXCEPT
                      !.notes = llm.error, !.source = "rule_fallback" ]

(***************************************************************************)
(* Inputs of a run                                                         *)
(***************************************************************************)
MaxEpochs == 2

MaxLeads == 2

MaxRuns == 2

ValidPhone == Phone(<<"+", "9", "7", "1", "5", "0", "0", "0", "1">>)

Lead(id, objectionType, channel, sentiment, phoneNumber) ==
    [ id |-> id, objectionType |-> objectionType, channel |-> channel,
      sentiment |-> sentiment, phoneNumber |-> phoneNumber ]

\* data/leads.json: the leads a run may be given, in input order
AllLeads ==
    << Lead("L1", "price", "instagram_dm", "skeptical", ValidPhone),
       Lead("L2", "trust", "WhatsApp", "curious", Phone(<<" ">>)),
       Lead("L3", "price", "whatsapp", "positive", ValidPhone),
       Lead("L4", "timing", "email", "hesitant", NoPhone),
       Lead("L5", "trust", "instagram_dm", "overwhelmed", ValidPhone) >>

LeadLists(minLeads, maxLeads) ==
    {SubSeq(AllLeads, 1, n) : n \in minLeads..Min(maxLeads, Len(AllLeads))}

Lo == Result(650, 44, "llm")

Hi == Result(780, 64, "llm")

Candidates(a, b, c) ==
    (STRATEGIES[1] :> a) @@ (STRATEGIES[2] :> b) @@ (STRATEGIES[3] :> c)

\* the candidate maps the evaluator may answer for one lead: all equal, the
\* first, the second or the last strategy alone on top, the last two tied on top
CandidateMaps ==
    { Candidates(Lo, Lo, Lo), Candidates(Hi, Lo, Lo), Candidates(Lo, Hi, Lo),
      Candidates(Lo, Lo, Hi), Candidates(Lo, Hi, Hi) }

\* the service response that evaluateByLlm turns into the given result
Answer(result) ==
    LlmPayload(Finite(result.score * 10), Finite(result.conversionProbability * 10),
               result.notes)

\* the responses that make the LLM path produce the given candidate map
Answering(cands) == [s \in DOMAIN cands |-> Answer(cands[s])]

\* the LLM is an external collaborator whose response is a function of its
\* arguments (lead, strategy, rendered response); the rendered response is
\* itself a function of (strategy, lead)
EvaluatorTables(ls, maps) == [{ls[i].id : i \in 1..Len(ls)} -> maps]

\* EVALUATOR_MODE unset and an API key set: the LLM is asked
LlmConfig == EvaluatorConfig("auto", TRUE)

\* VOICE_MODE, the ELEVENLABS_* settings and the provider's answer
VoiceSettings(mode, apiKey, agentId, agentPhoneNumberId, provider) ==
    [ mode |-> mode, apiKey |-> apiKey, agentId |-> agentId,
      agentPhoneNumberId |-> agentPhoneNumberId, provider |-> provider ]

\* the three ELEVENLABS_* settings all set or all unset
VoiceEnv(mode, configured, provider) ==
    VoiceSettings(mode, configured, configured, configured, provider)

VoiceSetups ==
    { [enabled |-> FALSE, env |-> VoiceEnv("dry-run", FALSE, "ok")],
      [enabled |-> TRUE, env |-> VoiceEnv("dry-run", FALSE, "ok")],
      [enabled |-> TRUE, env |-> VoiceEnv("live", TRUE, "http_error")],
      [enabled |-> TRUE, env |-> VoiceEnv("live", TRUE, "network_error")] }

(***************************************************************************)
(* The memory a run loads                                                  *)
(***************************************************************************)
Update(lead, strat, cands, ep) ==
    [lead |-> lead, strategy |-> strat, cands |-> cands, epoch |-> ep]

\* mem after the updates inputs[lo..hi], the i-th of them stamped i; the
\* range is halved, and mem is evaluated before the range is entered, to
\* keep the evaluation shallow
RECURSIVE ReplayOn(_, _, _, _)
ReplayOn(mem, inputs, lo, hi) ==
    IF {mem} = {} \/ lo > hi THEN mem
    ELSE IF lo = hi
    THEN LET u == inputs[lo]
         IN  updateMemory(mem, u.lead, u.strategy, u.cands[u.strategy],
                          u.epoch, u.cands, lo)
    ELSE LET mid == (lo + hi) \div 2
         IN  ReplayOn(ReplayOn(mem, inputs, lo, mid), inputs, mid + 1, hi)

\* the memory after the first n of the given updates on the reset memory
Replay(inputs, n) == ReplayOn(INITIAL_MEMORY, inputs, 1, n)

\* run.mjs 265-266 at the end of an epoch
endOfEpoch(mem) == [decayExploration(mem) EXCEPT !.runs = @ + 1]

\* the memory an earlier one-epoch warm-up run over three leads has saved:
\* consultative averages 6.5, social_proof and urgent_offer both 7.8, and
\* only the category price has a policy entry
PriorInputs ==
    << Update(AllLeads[1], STRATEGIES[1], Candidates(Lo, Hi, Hi), 1),
       Update(AllLeads[3], STRATEGIES[2], Candidates(Lo, Hi, Lo), 1),
       Update(AllLeads[3], STRATEGIES[3], Candidates(Lo, Lo, Hi), 1) >>

PriorMemory == endOfEpoch(Replay(PriorInputs, Len(PriorInputs)))

\* a memory file whose policy entry for trust names a strategy that is not
\* in the catalog (saved under another catalog, or edited)
ForeignMemory ==
    [PriorMemory EXCEPT !.objectionPolicy = ("trust" :> "legacy_strategy") @@ @]

LoadedMemories == {INITIAL_MEMORY, PriorMemory, ForeignMemory}

(***************************************************************************)
(* main()                                                                  *)
(***************************************************************************)
\* the webhook server has not been started and has written no file
WebhookStopped ==
    /\ once = FALSE
    /\ webhookSecret = ""
    /\ signatureToleranceSeconds = 300
    /\ server = "stopped"
    /\ request = Null
    /\ responses = << >>
    /\ latestFile = Null
    /\ eventsFile = << >>
    /\ learningFile = Null
    /\ handlers = << >>

\* main 174-186 have run: arguments parsed, leads and memory read
InitRunFrom(mems, lists, answers, setups, minEpochs, configs) ==
    /\ memoryFile \in mems
    /\ memory = memoryFile
    /\ loaded = memoryFile
    /\ invocation = 1
    /\ leads \in lists
    /\ evaluator \in EvaluatorTables(leads, answers)
    /\ evaluatorConfig \in configs
    /\ epochs \in 0..MaxEpochs
    /\ warmupEpochs \in 0..epochs  \* a larger value behaves as epochs does
    /\ \E setup \in setups :
          /\ voiceChannelEnabled = setup.enabled
          /\ voiceMode = setup.env
    /\ minEpochForVoice \in minEpochs
    /\ epoch = 1
    /\ leadIdx = 1
    /\ events = << >>
    /\ epochScores = << >>
    /\ rounds = << >>
    /\ voiceFollowups = << >>
    /\ strategy = Undefined
    /\ candidateScores = EmptyMap
    /\ clock = Len(memoryFile.history)
    /\ outboundRequests = 0
    /\ artifactsFile = Undefined
    /\ dispatcherCalls = << >>
    /\ decays = 0
    /\ pc = "epoch"
    /\ WebhookStopped

\* --voiceFromEpoch left at its default of 2, and an LLM that answers with
\* one of the given candidate maps
InitRun(mems, lists, maps, setups) ==
    InitRunFrom(mems, lists, {Answering(cands) : cands \in maps}, setups, {2}, {LlmConfig})

\* up to MaxLeads leads with every candidate map per lead, and longer lead
\* lists (the warm-up rotation wraps around) with two candidate maps per lead
Init ==
    \/ InitRun(LoadedMemories, LeadLists(0, MaxLeads), CandidateMaps, VoiceSetups)
    \/ InitRun(LoadedMemories, LeadLists(MaxLeads + 1, MaxLeads + 2),
               {Candidates(Lo, Lo, Lo), Candidates(Lo, Hi, Lo)}, VoiceSetups)

config == <<leads, evaluator, evaluatorConfig, epochs, warmupEpochs, voiceChannelEnabled,
            minEpochForVoice, voiceMode, loaded, invocation>>

\* what the dispatcher has done so far
dispatched == <<outboundRequests, artifactsFile, dispatcherCalls>>

\* run.mjs 188-192: the outer loop enters an epoch
EpochLoop ==
    /\ pc = "epoch"
    /\ epoch <= epochs
    /\ events' = << >>
    /\ epochScores' = << >>
    /\ leadIdx' = 1
    /\ pc' = "lead"
    /\ UNCHANGED <<memoryFile, memory, epoch, rounds, voiceFollowups, strategy,
                   candidateScores, clock, decays, dispatched, config, webhook>>

\* run.mjs 194-197: the next lead, its strategy and an empty candidate map
SelectStrategy ==
    /\ pc = "lead"
    /\ leadIdx <= Len(leads)
    /\ strategy' = IF epoch <= warmupEpochs
                   THEN pickWarmupStrategy(Len(events))
                   ELSE pickBestStrategy(memory, leads[leadIdx].objectionType)
    /\ candidateScores' = EmptyMap
    /\ pc' = "evaluate"
    /\ UNCHANGED <<memoryFile, memory, epoch, leadIdx, events, epochScores, rounds,
                   voiceFollowups, clock, decays, dispatched, config, webhook>>

\* the catalog strategies not yet in the candidate map, first one first
NextCandidate(cands) ==
    STRATEGIES[CHOOSE i \in 1..Len(STRATEGIES) :
                  /\ STRATEGIES[i] \notin DOMAIN cands
                  /\ \A j \in 1..(i - 1) : STRATEGIES[j] \in DOMAIN cands]

\* an inner loop that evaluates the selected strategy alone
EvaluateSelectedOnly ==
    /\ pc = "evaluate"
    /\ LET lead == leads[leadIdx]
           result == evaluateLeadAdaptive(evaluatorConfig, lead, strategy,
                                          buildResponse(strategy, lead),
                                          evaluator[lead.id][strategy])
       IN  candidateScores' = (strategy :> result)
    /\ pc' = "update"
    /\ UNCHANGED <<memoryFile, memory, epoch, leadIdx, events, epochScores, rounds,
                   voiceFollowups, strategy, clock, decays, dispatched, config, webhook>>

\* an inner loop whose evaluation stays pending for as long as the LLM
\* service does not answer
EvaluateWithoutTimeout ==
    /\ pc = "evaluate"
    /\ LET c == NextCandidate(candidateScores)
           lead == leads[leadIdx]
           result == evaluateLeadAdaptive(evaluatorConfig, lead, c, buildResponse(c, lead),
                                          evaluator[lead.id][c])
       IN  /\ shouldUseLlm(evaluatorConfig) => evaluator[lead.id][c].kind # "timeout"
           /\ candidateScores' = (c :> result) @@ candidateScores
           /\ pc' = IF DOMAIN candidateScores' = StrategySet THEN "update" ELSE "evaluate"
    /\ UNCHANGED <<memoryFile, memory, epoch, leadIdx, events, epochScores, rounds,
                   voiceFollowups, strategy, clock, decays, dispatched, config, webhook>>

\* run.mjs 198-205: one awaited evaluation of the inner loop
Evaluate ==
    /\ pc = "evaluate"
    /\ LET c == NextCandidate(candidateScores)
           lead == leads[leadIdx]
           result == evaluateLeadAdaptive(evaluatorConfig, lead, c, buildResponse(c, lead),
                                          evaluator[lead.id][c])
       IN  /\ candidateScores' = (c :> result) @@ candidateScores
           /\ pc' = IF DOMAIN candidateScores' = StrategySet THEN "update" ELSE "evaluate"
    /\ UNCHANGED <<memoryFile, memory, epoch, leadIdx, events, epochScores, rounds,
                   voiceFollowups, strategy, clock, decays, dispatched, config, webhook>>

\* a memory update applied to the leads in reverse input order
UpdateMemoryReverseOrder ==
    /\ pc = "update"
    /\ LET lead   == leads[Len(leads) + 1 - leadIdx]
           result == candidateScores[strategy]
       IN  /\ clock' = clock + 1
           /\ memory' = updateMemory(memory, lead, strategy, result, epoch,
                                     candidateScores, clock')
           /\ epochScores' = Append(epochScores, result.score)
    /\ pc' = "voice"
    /\ UNCHANGED <<memoryFile, epoch, leadIdx, events, rounds, voiceFollowups,
                   strategy, candidateScores, decays, dispatched, config, webhook>>

\* run.mjs 207-211: the memory update for the lead
UpdateMemory ==
    /\ pc = "update"
    /\ LET lead   == leads[leadIdx]
           result == candidateScores[strategy]
       IN  /\ clock' = clock + 1
           /\ memory' = updateMemory(memory, lead, strategy, result, epoch,
                                     candidateScores, clock')
           /\ epochScores' = Append(epochScores, result.score)
    /\ pc' = "voice"
    /\ UNCHANGED <<memoryFile, epoch, leadIdx, events, rounds, voiceFollowups,
                   strategy, candidateScores, decays, dispatched, config, webhook>>

\* run.mjs 220-228
voiceOutcome(lead, result, ep) ==
    IF shouldEscalateToVoice(lead, result, ep, minEpochForVoice)
    THEN maybeStartVoiceFollowup(voiceChannelEnabled, lead, voiceMode)
    ELSE [attempted |-> FALSE, reason |-> "NO_ESCALATION"]

\* run.mjs 242-254
RoundEvent(lead, strat, cands, voice) ==
    [ leadId |-> lead.id,
      objectionType |-> lead.objectionType,
      strategy |-> strat,
      score |-> cands[strat].score,
      conversionProbability |-> cands[strat].conversionProbability,
      bestCandidateStrategy |-> bestCandidate(cands),
      bestCandidateScore |-> cands[bestCandidate(cands)].score,
      voice |-> voice,
      evaluator |-> cands[strat].source ]

\* main awaits a dispatcher call whose request is never answered: the fetch of
\* elevenlabs-outbound.mjs 136 carries no timeout and no abort signal
AwaitsDispatch ==
    /\ pc = "voice"
    /\ voiceMode.provider = "no_answer"
    /\ voiceOutcome(leads[leadIdx], candidateScores[strategy], epoch).attempted
    /\ startElevenLabsOutboundCall(leads[leadIdx].phoneNumber, voiceMode).fetched

\* run.mjs 212-258: the escalation decision, the awaited dispatch and the
\* round event; a dispatch that throws ends main in its catch handler, and
\* main goes on only when the awaited dispatch has settled
VoiceFollowup ==
    /\ pc = "voice"
    /\ ~AwaitsDispatch
    /\ LET lead  == leads[leadIdx]
           voice == voiceOutcome(lead, candidateScores[strategy], epoch)
           call  == startElevenLabsOutboundCall(lead.phoneNumber, voiceMode)
       IN  /\ outboundRequests' =
                 IF voice.attempted /\ call.fetched
                 THEN outboundRequests + 1 ELSE outboundRequests
           /\ artifactsFile' =
                 IF voice.attempted /\ call.written THEN call.status ELSE artifactsFile
           /\ dispatcherCalls' =
                 IF voice.attempted
                 THEN Append(dispatcherCalls, [epoch |-> epoch, leadId |-> lead.id])
                 ELSE dispatcherCalls
           /\ IF voice.attempted /\ voice.status = "THROWN"
              THEN /\ pc' = "fatal"
                   /\ UNCHANGED <<voiceFollowups, events, leadIdx>>
              ELSE /\ voiceFollowups' =
                         IF voice.attempted
                         THEN Append(voiceFollowups,
                                     [ epoch |-> epoch, leadId |-> lead.id,
                                       voiceStatus |-> voice.status,
                                       voiceMode |-> voice.mode, ok |-> voice.ok ])
                         ELSE voiceFollowups
                   /\ events' = Append(events, RoundEvent(lead, strategy, candidateScores, voice))
                   /\ leadIdx' = leadIdx + 1
                   /\ pc' = "lead"
    /\ UNCHANGED <<memoryFile, memory, epoch, epochScores, rounds, strategy,
                   candidateScores, clock, decays, config, webhook>>

\* the end of an epoch that leaves the run counter as it was
EndEpochRunsUncounted ==
    /\ pc = "lead"
    /\ leadIdx > Len(leads)
    /\ rounds' = Append(rounds, [ epoch |-> epoch,
                                  avgScore |-> epochAverage(epochScores),
                                  events |-> events ])
    /\ memory' = decayExploration(memory)
    /\ decays' = decays + 1
    /\ epoch' = epoch + 1
    /\ pc' = "epoch"
    /\ UNCHANGED <<memoryFile, leadIdx, events, epochScores, voiceFollowups,
                   strategy, candidateScores, clock, dispatched, config, webhook>>

\* the end of an epoch that saves the memory of the rounds played so far
EndEpochSavesMemory ==
    /\ pc = "lead"
    /\ leadIdx > Len(leads)
    /\ rounds' = Append(rounds, [ epoch |-> epoch,
                                  avgScore |-> epochAverage(epochScores),
                                  events |-> events ])
    /\ memory' = [decayExploration(memory) EXCEPT !.runs = @ + 1]
    /\ memoryFile' = memory'
    /\ decays' = decays + 1
    /\ epoch' = epoch + 1
    /\ pc' = "epoch"
    /\ UNCHANGED <<leadIdx, events, epochScores, voiceFollowups,
                   strategy, candidateScores, clock, dispatched, config, webhook>>

\* run.mjs 261-266 and the loop increment: the epoch is complete
EndEpoch ==
    /\ pc = "lead"
    /\ leadIdx > Len(leads)
    /\ rounds' = Append(rounds, [ epoch |-> epoch,
                                  avgScore |-> epochAverage(epochScores),
                                  events |-> events ])
    /\ memory' = [decayExploration(memory) EXCEPT !.runs = @ + 1]
    /\ decays' = decays + 1
    /\ epoch' = epoch + 1
    /\ pc' = "epoch"
    /\ UNCHANGED <<memoryFile, leadIdx, events, epochScores, voiceFollowups,
                   strategy, candidateScores, clock, dispatched, config, webhook>>

\* run.mjs 269-312: the loop is left, memory and report are written
WriteMemory ==
    /\ pc = "epoch"
    /\ epoch > epochs
    /\ memoryFile' = memory
    /\ pc' = "done"
    /\ UNCHANGED <<memory, epoch, leadIdx, events, epochScores, rounds,
                   voiceFollowups, strategy, candidateScores, clock, decays, dispatched, config, webhook>>

Next ==
    \/ EpochLoop
    \/ SelectStrategy
    \/ Evaluate
    \/ UpdateMemory
    \/ VoiceFollowup
    \/ EndEpoch
    \/ WriteMemory

Spec == Init /\ [][Next]_vars

(***************************************************************************)
(* Successive runs on the persisted memory                                 *)
(***************************************************************************)
\* the program is started again with the same arguments and leads: main
\* 174-186 read the memory file as the previous run left it
Rerun ==
    /\ pc \in {"done", "fatal"}
    /\ invocation < MaxRuns
    /\ invocation' = invocation + 1
    /\ memory' = memoryFile
    /\ epoch' = 1
    /\ leadIdx' = 1
    /\ events' = << >>
    /\ epochScores' = << >>
    /\ rounds' = << >>
    /\ voiceFollowups' = << >>
    /\ strategy' = Undefined
    /\ candidateScores' = EmptyMap
    /\ pc' = "epoch"
    /\ UNCHANGED <<memoryFile, loaded, leads, evaluator, evaluatorConfig, epochs, warmupEpochs,
                   voiceChannelEnabled, minEpochForVoice, voiceMode, clock, decays,
                   dispatched, webhook>>

\* policy values a memory file may hold: epsilon and minEpsilon in 1e-5
\* units (on and off the 4-decimal grid), decay in 1e-3 units, all in [0,1]
EpsilonValues == {0, 5000, 5004, 5006, 12346, 45000, EpsDen}

DecayValues == {0, 500, 700, 999, 1000}

PolicyMemories ==
    { [INITIAL_MEMORY EXCEPT !.policy = [epsilon |-> e, decay |-> d, minEpsilon |-> m]] :
        e \in EpsilonValues, d \in DecayValues, m \in EpsilonValues }

InitRuns ==
    InitRun(PolicyMemories, LeadLists(0, 1), {Candidates(Lo, Hi, Lo)},
            { [enabled |-> TRUE, env |-> VoiceEnv("dry-run", FALSE, "ok")],
              [enabled |-> TRUE, env |-> VoiceEnv("live", TRUE, "network_error")] })

NextRuns == Next \/ Rerun

SpecRuns == InitRuns /\ [][NextRuns]_vars

(***************************************************************************)
(* Runs on a memory whose history is at the cap                            *)
(***************************************************************************)
\* the updates of earlier runs: lead and strategy rotate, the i-th update
\* is stamped i
LongInputs ==
    [ i \in 1..HISTORY_LIMIT |->
        Update(AllLeads[(i % Len(AllLeads)) + 1], pickWarmupStrategy(i - 1),
               Candidates(Lo, Hi, Lo), 1) ]

\* the memory file after HISTORY_LIMIT - 1 and after HISTORY_LIMIT updates
FullHistoryMemories ==
    {endOfEpoch(Replay(LongInputs, n)) : n \in {HISTORY_LIMIT - 1, HISTORY_LIMIT}}

InitHistory ==
    InitRun(FullHistoryMemories, LeadLists(1, MaxLeads), {Candidates(Lo, Hi, Lo)},
            {[enabled |-> TRUE, env |-> VoiceEnv("dry-run", FALSE, "ok")]})

SpecHistory == InitHistory /\ [][Next]_vars

(***************************************************************************)
(* Runs over one lead of every kind the escalation decision tells apart    *)
(***************************************************************************)
\* phone numbers as leads.json may hold them: valid E.164, valid once the
\* formatting characters are removed, empty, blank, without the leading +,
\* too short, and no phoneNumber at all
PhoneNumbers ==
    { ValidPhone,
      Phone(<<"+", "9", "7", "1", " ", "(", "5", "0", ")", " ", "0", "0", "-", "0", "1">>),
      Phone(<< >>),
      Phone(<<" ">>),
      Phone(<<"0", "5", "0", "0", "0", "0", "0", "0", "1">>),
      Phone(<<"+", "1", "2", "3">>),
      NoPhone }

EscalationLeads ==
    { Lead("E1", "price", channel, sentiment, phoneNumber) :
        channel \in {"instagram_dm", "WhatsApp", "email"},
        sentiment \in {"skeptical", "Skeptical", "hesitant", "curious"},
        phoneNumber \in PhoneNumbers }

\* a result with the given conversionProbability for every candidate
Uniform(conversionProbability) ==
    LET r == Result(650, conversionProbability, "llm") IN Candidates(r, r, r)

\* the voice setups of the other runs, and live mode without the
\* ELEVENLABS_* settings
EscalationSetups ==
    VoiceSetups \cup {[enabled |-> TRUE, env |-> VoiceEnv("live", FALSE, "ok")]}

InitEscalation ==
    InitRunFrom({INITIAL_MEMORY}, {<<lead>> : lead \in EscalationLeads},
                {Answering(Uniform(40)), Answering(Uniform(57)), Answering(Uniform(58))},
                EscalationSetups, 1..(MaxEpochs + 1), {LlmConfig})

SpecEscalation == InitEscalation /\ [][Next]_vars

(***************************************************************************)
(* Runs with every evaluator configuration and LLM response                *)
(***************************************************************************)
\* the requests that fail, by what fails
LlmFailures ==
    { LlmFailure("timeout"), LlmFailure("network_error"), LlmFailure("http_error"),
      LlmFailure("not_json"), LlmFailure("no_object") }

\* the payloads: in range, in range with a third decimal, above both
\* ranges, below both ranges (a null converts to 0), and without a numeric
\* score
LlmPayloads ==
    { LlmPayload(Finite(7800), Finite(640), "rationale"),
      LlmPayload(Finite(7776), Finite(644), Undefined),
      LlmPayload(Finite(12000), Finite(1200), Undefined),
      LlmPayload(Finite(0), Finite(0), Undefined),
      LlmPayload(NaN, Finite(640), Undefined) }

LlmResponses == LlmFailures \cup LlmPayloads

\* the responses to the three requests for one lead: the same response to
\* all, or any response to the first request with an out-of-range payload
\* to the second and a payload in range to the third
ResponseMaps ==
    { [s \in StrategySet |-> r] : r \in LlmResponses }
      \cup { Candidates(r, LlmPayload(Finite(12000), Finite(1200), Undefined),
                        LlmPayload(Finite(7800), Finite(640), "rationale")) :
               r \in LlmResponses }

\* EVALUATOR_MODE rule, llm (with no key set) and auto with and without a key
EvaluatorConfigs ==
    { EvaluatorConfig("rule", TRUE), EvaluatorConfig("llm", FALSE),
      EvaluatorConfig("auto", TRUE), EvaluatorConfig("auto", FALSE) }

EvaluatorLeads ==
    { Lead("V1", objectionType, "instagram_dm", sentiment, ValidPhone) :
        objectionType \in {"price", "timing", "other"},
        sentiment \in {"skeptical", "curious"} }

\* one lead with every response map, and two leads whose requests all time
\* out or are all answered in range
InitEvaluator ==
    \/ InitRunFrom({INITIAL_MEMORY}, {<<lead>> : lead \in EvaluatorLeads}, ResponseMaps,
                   {[enabled |-> TRUE, env |-> VoiceEnv("dry-run", FALSE, "ok")]},
                   {2}, EvaluatorConfigs)
    \/ InitRunFrom({INITIAL_MEMORY}, {SubSeq(AllLeads, 1, 2)},
                   { [s \in StrategySet |-> LlmFailure("timeout")],
                     [s \in StrategySet |-> LlmPayload(Finite(7800), Finite(640), "rationale")] },
                   {[enabled |-> TRUE, env |-> VoiceEnv("dry-run", FALSE, "ok")]},
                   {2}, EvaluatorConfigs)

SpecEvaluator == InitEvaluator /\ [][Next]_vars

(***************************************************************************)
(* Runs that call the dispatcher with every kind of number and setting     *)
(***************************************************************************)
\* n times the character c
Repeat(c, n) == [i \in 1..n |-> c]

\* the numbers of PhoneNumbers, and numbers of 7, 15 and 16 digits, with a
\* letter, with a second +, and valid with a blank on either side
DispatchPhones ==
    PhoneNumbers \cup
    { Phone(<<"+">> \o Repeat("1", 7)),
      Phone(<<"+">> \o Repeat("1", 15)),
      Phone(<<"+">> \o Repeat("1", 16)),
      Phone(<<"+", "9", "7", "1", "5", "0", "0", "a", "1">>),
      Phone(<<"+", "+", "9", "7", "1", "5", "0", "0", "0", "1">>),
      Phone(<<" ", "+", "9", "7", "1", "5", "0", "0", "0", "1", " ">>) }

\* a lead the escalation decision passes whenever its number is not blank
DispatchLeads ==
    {Lead("D1", "price", "instagram_dm", "skeptical", phoneNumber) :
        phoneNumber \in DispatchPhones}

\* VOICE_MODE dry-run, live, a value that is not exactly live and test,
\* with the ELEVENLABS_* settings all set, one of them missing or all
\* missing, and a provider that accepts, refuses or cannot be reached
DispatchSetups ==
    { [enabled |-> TRUE, env |-> VoiceSettings(mode, apiKey, agentId, phoneId, "ok")] :
        mode \in {"dry-run", "live", "Live", "test"},
        apiKey \in BOOLEAN, agentId \in BOOLEAN, phoneId \in BOOLEAN }
      \cup { [enabled |-> TRUE, env |-> VoiceEnv("live", TRUE, provider)] :
               provider \in {"http_error", "network_error"} }

InitDispatch ==
    InitRunFrom({INITIAL_MEMORY}, {<<lead>> : lead \in DispatchLeads},
                {Answering(Uniform(40))}, DispatchSetups, {1}, {LlmConfig})

SpecDispatch == InitDispatch /\ [][Next]_vars

(***************************************************************************)
(* Runs whose memory file cannot be read or written                        *)
(***************************************************************************)
\* a memory file that is missing or is not JSON: readJson rejects
Unreadable == [kind |-> "unreadable"]

\* main 174-178 have run: arguments parsed and leads read, the memory file
\* not yet read
InitPersistence ==
    /\ memoryFile \in {INITIAL_MEMORY, PriorMemory, Unreadable}
    /\ memory = Null
    /\ loaded = memoryFile
    /\ invocation = 1
    /\ leads \in LeadLists(0, MaxLeads)
    /\ evaluator \in EvaluatorTables(leads, {Answering(Candidates(Lo, Hi, Lo)),
                                             Answering(Candidates(Hi, Lo, Lo))})
    /\ evaluatorConfig = LlmConfig
    /\ epochs \in 0..MaxEpochs
    /\ warmupEpochs \in 0..epochs
    /\ voiceChannelEnabled = TRUE
    /\ voiceMode = VoiceEnv("dry-run", FALSE, "ok")
    /\ minEpochForVoice = 2
    /\ epoch = 1
    /\ leadIdx = 1
    /\ events = << >>
    /\ epochScores = << >>
    /\ rounds = << >>
    /\ voiceFollowups = << >>
    /\ strategy = Undefined
    /\ candidateScores = EmptyMap
    /\ clock = IF memoryFile = Unreadable THEN 0 ELSE Len(memoryFile.history)
    /\ outboundRequests = 0
    /\ artifactsFile = Undefined
    /\ dispatcherCalls = << >>
    /\ decays = 0
    /\ pc = "start"
    /\ WebhookStopped

\* a main that starts from the reset memory when the file cannot be read
ReadMemoryOrDefault ==
    /\ pc = "start"
    /\ memory' = IF memoryFile = Unreadable THEN INITIAL_MEMORY ELSE memoryFile
    /\ pc' = "epoch"
    /\ UNCHANGED <<memoryFile, epoch, leadIdx, events, epochScores, rounds,
                   voiceFollowups, strategy, candidateScores, clock, decays,
                   dispatched, config, webhook>>

\* run.mjs 179 and 315-318: the memory is read; a rejected readJson ends
\* main in its catch handler
ReadMemory ==
    /\ pc = "start"
    /\ IF memoryFile = Unreadable
       THEN /\ pc' = "fatal"
            /\ UNCHANGED memory
       ELSE /\ memory' = memoryFile
            /\ pc' = "epoch"
    /\ UNCHANGED <<memoryFile, epoch, leadIdx, events, epochScores, rounds,
                   voiceFollowups, strategy, candidateScores, clock, decays,
                   dispatched, config, webhook>>

\* run.mjs 296 and 315-318: writeJson(MEMORY_PATH) rejects, the file is
\* left as it was or truncated, and main ends in its catch handler
WriteMemoryFails ==
    /\ pc = "epoch"
    /\ epoch > epochs
    /\ memoryFile' \in {memoryFile, Unreadable}
    /\ pc' = "fatal"
    /\ UNCHANGED <<memory, epoch, leadIdx, events, epochScores, rounds,
                   voiceFollowups, strategy, candidateScores, clock, decays,
                   dispatched, config, webhook>>

NextPersistence == ReadMemory \/ Next \/ WriteMemoryFails

SpecPersistence == InitPersistence /\ [][NextPersistence]_vars

(***************************************************************************)
(* Runs whose awaited calls settle or stay pending                         *)
(***************************************************************************)
\* EVALUATOR_MODE rule, and auto with a key
LiveConfigs == {EvaluatorConfig("rule", TRUE), LlmConfig}

\* an LLM service that never answers (the abort timer fires on every
\* request), and one that answers
LiveAnswers ==
    { [s \in StrategySet |-> LlmFailure("timeout")], Answering(Uniform(40)) }

\* dry-run, and live calls to a provider that accepts, refuses, cannot be
\* reached or never answers
LiveSetups ==
    { [enabled |-> TRUE, env |-> VoiceEnv("dry-run", FALSE, "ok")] }
      \cup { [enabled |-> TRUE, env |-> VoiceEnv("live", TRUE, provider)] :
               provider \in {"ok", "http_error", "network_error", "no_answer"} }

InitLive ==
    InitRunFrom({INITIAL_MEMORY}, LeadLists(0, MaxLeads), LiveAnswers, LiveSetups,
                {1, 2}, LiveConfigs)

\* main is one async function: each continuation runs once the promise it
\* awaits has settled, so a step that stays possible is taken
SpecLive == InitLive /\ [][Next]_vars /\ WF_vars(Next)

(***************************************************************************)
(* The three-lead scenario                                                 *)
(***************************************************************************)
\* three leads of the categories price, trust and timing, in this order
ScenarioLeads == << AllLeads[1], AllLeads[2], AllLeads[4] >>

\* a run on the reset memory over the three leads, with every candidate
\* map per lead
InitScenario ==
    InitRun({INITIAL_MEMORY}, {ScenarioLeads}, CandidateMaps,
            {[enabled |-> TRUE, env |-> VoiceEnv("dry-run", FALSE, "ok")]})

SpecScenario == InitScenario /\ [][Next]_vars

(***************************************************************************)
(* The memory as objects that updateMemory changes in place                *)
(***************************************************************************)
\* the objects JSON.parse makes of a memory value, at addresses under root:
\* the memory object refers to its policy, strategyStats, objectionPolicy
\* and history objects, and strategyStats to one object per strategy
Objects(root, mem) ==
    (<<root>> :> [ runs |-> mem.runs,
                   policy |-> <<root, "policy">>,
                   strategyStats |-> <<root, "strategyStats">>,
                   objectionPolicy |-> <<root, "objectionPolicy">>,
                   history |-> <<root, "history">> ])
      @@ (<<root, "policy">> :> mem.policy)
      @@ (<<root, "strategyStats">> :> [s \in StrategySet |-> <<root, "strategyStats", s>>])
      @@ [a \in {<<root, "strategyStats", s>> : s \in StrategySet} |-> mem.strategyStats[a[3]]]
      @@ (<<root, "objectionPolicy">> :> mem.objectionPolicy)
      @@ (<<root, "history">> :> mem.history)

\* the memory value reached from the memory object at root
Deref(heap, root) ==
    LET object == heap[<<root>>]
    IN  [ runs |-> object.runs,
          policy |-> heap[object.policy],
          strategyStats |-> [s \in StrategySet |-> heap[heap[object.strategyStats][s]]],
          objectionPolicy |-> heap[object.objectionPolicy],
          history |-> heap[object.history] ]

\* { ...memory }: a new memory object that refers to the same policy,
\* strategyStats, objectionPolicy and history objects
shallowClone(heap, from, to) == (<<to>> :> heap[<<from>>]) @@ heap

\* JSON.parse(JSON.stringify(memory)): new objects throughout
deepClone(heap, from, to) == Objects(to, Deref(heap, from)) @@ heap

\* run.mjs 79-109 on the memory object at root: the stats, policy and
\* history objects are changed in place, and slice(-200) makes a new array
updateMemoryAt(heap, root, lead, strat, result, ep, cands, now) ==
    LET object == heap[<<root>>]
        pushed == [ heap EXCEPT
                      ![heap[object.strategyStats][strat]] = updateStats(@, result),
                      ![object.objectionPolicy] =
                          (lead.objectionType :> bestForLead(strat, result, cands)) @@ @,
                      ![object.history] =
                          Append(@, HistoryEvent(lead, strat, result, ep, now)) ]
    IN  IF Len(pushed[object.history]) > HISTORY_LIMIT
        THEN (<<root, "history", now>> :> SliceLast(pushed[object.history], HISTORY_LIMIT))
               @@ [pushed EXCEPT ![<<root>>].history = <<root, "history", now>>]
        ELSE pushed

(***************************************************************************)
(* Runs whose round averages are compared                                  *)
(***************************************************************************)
\* three leads of three categories, and three leads of which the first and
\* the last share the category price
InitAverages ==
    InitRun({INITIAL_MEMORY}, {ScenarioLeads, SubSeq(AllLeads, 1, 3)}, CandidateMaps,
            {[enabled |-> TRUE, env |-> VoiceEnv("dry-run", FALSE, "ok")]})

SpecAverages == InitAverages /\ [][Next]_vars

(***************************************************************************)
(* The post-call webhook server                                            *)
(***************************************************************************)
MaxRequests == 2

\* Math.floor(Date.now() / 1000) when the requests arrive
NowSec == 1000

WEBHOOK_PATH == "/webhooks/elevenlabs"

\* crypto.createHmac('sha256', secret).update(message).digest('hex'), the
\* message being rawBody (timestamp Null) or `${ts}.${rawBody}`: different
\* secrets or messages give different digests
Hmac(secret, timestamp, rawBody) ==
    [kind |-> "hmac", secret |-> secret, timestamp |-> timestamp, rawBody |-> rawBody]

\* a header value that is not the hex text of a digest
NotHex == [kind |-> "text"]

\* a request body: its text and whether JSON.parse accepts it
Body(text, json) == [text |-> text, json |-> json]

\* the signature header of a request: none (or blank), a text without "=",
\* or comma-separated key=value parts
NoHeader == [kind |-> "none"]

Bare(value) == [kind |-> "bare", value |-> value]

Part(k, v) == [k |-> k, v |-> v]

Parts(parts) == [kind |-> "parts", parts |-> parts]

Request(method, url, signature, rawBody) ==
    [method |-> method, url |-> url, signature |-> signature, rawBody |-> rawBody]

\* webhook server 39-64: the timestamp is the value of the last t or
\* timestamp part, the signatures are the values of the v0, v1, sig and
\* signature parts
parseSignatureHeader(raw) ==
    IF raw.kind = "none" THEN [timestamp |-> Null, signatures |-> << >>]
    ELSE IF raw.kind = "bare" THEN [timestamp |-> Null, signatures |-> <<raw.value>>]
    ELSE LET stamps == {i \in 1..Len(raw.parts) : raw.parts[i].k \in {"t", "timestamp"}}
             signed == SelectSeq(raw.parts,
                                 LAMBDA part : part.k \in {"v0", "v1", "sig", "signature"})
         IN  [ timestamp |->
                   IF stamps = {} THEN Null
                   ELSE raw.parts[CHOOSE i \in stamps : \A j \in stamps : j <= i].v,
               signatures |-> [i \in 1..Len(signed) |-> signed[i].v] ]

\* webhook server 66-71: both texts decode to the same, non-empty bytes
safeCompareHex(a, b) == a.kind = "hmac" /\ b.kind = "hmac" /\ a = b

\* the result of verifySignature
Verification(ok, reason) == [ok |-> ok, reason |-> reason]

\* verifySignature that does not look at the age of the timestamp
verifySignatureAnyAge(rawBody, signatureHeader, secret, toleranceSeconds) ==
    LET parsed     == parseSignatureHeader(signatureHeader)
        ts         == parsed.timestamp
        candidates == {Hmac(secret, Null, rawBody)} \cup
                      (IF ts # Null THEN {Hmac(secret, ts, rawBody)} ELSE {})
        provided   == IF Len(parsed.signatures) > 0 THEN parsed.signatures
                      ELSE IF ts # Null THEN << >> ELSE <<NotHex>>
        matched    == \E i \in 1..Len(provided) : \E cand \in candidates :
                          safeCompareHex(provided[i], cand)
    IN  IF ~matched THEN Verification(FALSE, "BAD_SIGNATURE")
        ELSE Verification(TRUE, Undefined)

\* webhook server 73-110
verifySignature(rawBody, signatureHeader, secret, toleranceSeconds) ==
    LET parsed     == parseSignatureHeader(signatureHeader)
        ts         == parsed.timestamp
        candidates == {Hmac(secret, Null, rawBody)} \cup
                      (IF ts # Null THEN {Hmac(secret, ts, rawBody)} ELSE {})
        provided   == IF Len(parsed.signatures) > 0 THEN parsed.signatures
                      ELSE IF ts # Null THEN << >> ELSE <<NotHex>>
        matched    == \E i \in 1..Len(provided) : \E cand \in candidates :
                          safeCompareHex(provided[i], cand)
        drift      == IF NowSec >= ts.units THEN NowSec - ts.units ELSE ts.units - NowSec
    IN  IF ~matched THEN Verification(FALSE, "BAD_SIGNATURE")
        ELSE IF ts = Null THEN Verification(TRUE, Undefined)
        ELSE IF ~ts.finite THEN Verification(FALSE, "BAD_TIMESTAMP")
        ELSE IF drift > toleranceSeconds THEN Verification(FALSE, "SIGNATURE_EXPIRED")
        ELSE Verification(TRUE, Undefined)

\* a JavaScript string value, where a null may stand as well
Text(value) == [kind |-> "string", value |-> value]

\* extractCallEvent, 26-58 of the unsigned server: the lead id of the event;
\* the payload of event-1 carries the lead_id L1 in its dynamic variables, the
\* other payloads carry none
extractCallEvent(rawBody) ==
    [leadId |-> IF rawBody.text = "event-1" THEN Text("L1") ELSE Null]

\* upsertLearning 72-78: the aggregate it starts from (the call counts; the
\* durations and timestamps are left out)
DefaultLearning == [callsCount |-> 0, byLeadId |-> EmptyMap]

\* upsertLearning 80-85: the file's content, or the defaults when the file
\* cannot be read
readLearning(file) == IF file = Null THEN DefaultLearning ELSE file

\* upsertLearning 87-109: the aggregate with the event counted, in total and
\* under its lead id (or unknown)
upsertLearning(learning, event) ==
    LET leadKey == IF event.leadId = Null THEN "unknown" ELSE event.leadId.value
        prev == IF leadKey \in DOMAIN learning.byLeadId
                THEN learning.byLeadId[leadKey] ELSE 0
    IN  [ callsCount |-> learning.callsCount + 1,
          byLeadId |-> (leadKey :> (prev + 1)) @@ learning.byLeadId ]

\* a response: its status code and the error of its body
Respond(statusCode, error) == [statusCode |-> statusCode, error |-> error]

\* the createServer callback up to the call of handleWebhook: the response
\* sent before it, or Null when the request gets that far
Refusal(req) ==
    IF req.method # "POST" \/ req.url # WEBHOOK_PATH THEN Respond(404, "NOT_FOUND")
    ELSE IF webhookSecret = "" THEN Null
    ELSE IF req.signature.kind = "none" THEN Respond(401, "MISSING_SIGNATURE")
    ELSE LET verification == verifySignature(req.rawBody, req.signature, webhookSecret,
                                             signatureToleranceSeconds)
         IN  IF ~verification.ok THEN Respond(401, verification.reason) ELSE Null

\* the createServer callback and its end handler for one request: refused,
\* or handed to handleWebhook, which answers 400 to a body that is not JSON
\* and otherwise writes the three files and answers 200; in once mode the
\* server is closed after the response of handleWebhook
HandleRequest(req) ==
    /\ server = "listening"
    /\ Len(responses) < MaxRequests
    /\ request' = req
    /\ IF Refusal(req) # Null
       THEN /\ responses' = Append(responses, Refusal(req))
            /\ UNCHANGED <<latestFile, eventsFile, learningFile, server>>
       ELSE /\ IF req.rawBody.json
               THEN /\ responses' = Append(responses, Respond(200, Undefined))
                    /\ latestFile' = req.rawBody
                    /\ eventsFile' = Append(eventsFile, req.rawBody)
                    /\ learningFile' = upsertLearning(readLearning(learningFile),
                                                      extractCallEvent(req.rawBody))
               ELSE /\ responses' = Append(responses, Respond(400, "INVALID_JSON"))
                    /\ UNCHANGED <<latestFile, eventsFile, learningFile>>
            /\ server' = IF once THEN "closing" ELSE "listening"
    /\ UNCHANGED <<once, webhookSecret, signatureToleranceSeconds, handlers>>
    /\ UNCHANGED <<memoryFile, memory, epoch, leadIdx, events, epochScores, rounds,
                   voiceFollowups, strategy, candidateScores, clock, decays, pc,
                   dispatched, config>>

\* server.close(() => process.exit(0)): the server has closed
Exit ==
    /\ server = "closing"
    /\ server' = "exited"
    /\ UNCHANGED <<once, webhookSecret, signatureToleranceSeconds, request, responses,
                   latestFile, eventsFile, learningFile, handlers>>
    /\ UNCHANGED <<memoryFile, memory, epoch, leadIdx, events, epochScores, rounds,
                   voiceFollowups, strategy, candidateScores, clock, decays, pc,
                   dispatched, config>>

\* two events and a body that is not JSON
Bodies == {Body("event-1", TRUE), Body("event-2", TRUE), Body("not json", FALSE)}

\* the signature headers a sender may attach to a body: none; the digest of
\* the body alone under the secret or under another secret; a text that is
\* no digest; the header of the replay script (t and v0 over `${t}.${body}`)
\* with a timestamp at the current time, at both ends of a tolerance of 300
\* seconds and one second beyond them, under the secret or another secret;
\* a digest over another body; a timestamp that is not a number; an expired
\* timestamp with a digest of the body alone; a timestamp and no signature;
\* and the digest under a key that is not a signature key
Headers(rawBody) ==
    { NoHeader,
      Bare(Hmac("secret", Null, rawBody)),
      Bare(Hmac("guess", Null, rawBody)),
      Bare(NotHex),
      Parts(<<Part("t", Finite(NowSec)),
              Part("v0", Hmac("secret", Finite(NowSec), Body("event-2", TRUE)))>>),
      Parts(<<Part("t", NaN), Part("v0", Hmac("secret", Null, rawBody))>>),
      Parts(<<Part("t", Finite(NowSec - 301)), Part("v1", Hmac("secret", Null, rawBody))>>),
      Parts(<<Part("t", Finite(NowSec))>>),
      Parts(<<Part("key", Hmac("secret", Null, rawBody))>>) }
      \cup { Parts(<<Part("t", Finite(t)), Part("v0", Hmac(secret, Finite(t), rawBody))>>) :
               t \in {NowSec - 301, NowSec - 300, NowSec, NowSec + 300, NowSec + 301},
               secret \in {"secret", "guess"} }

Requests ==
    UNION { { Request("POST", WEBHOOK_PATH, header, rawBody) : header \in Headers(rawBody) } :
              rawBody \in Bodies }
      \cup { Request("GET", WEBHOOK_PATH, NoHeader, Body("", FALSE)),
             Request("POST", "/", Bare(Hmac("secret", Null, Body("event-1", TRUE))),
                     Body("event-1", TRUE)) }

\* the server has been started, with or without --once=true, with or
\* without a secret and with a tolerance of 300 or 60 seconds; the agent is
\* not running
InitWebhook ==
    /\ memoryFile = INITIAL_MEMORY
    /\ memory = INITIAL_MEMORY
    /\ loaded = INITIAL_MEMORY
    /\ invocation = 0
    /\ leads = << >>
    /\ evaluator = EmptyMap
    /\ evaluatorConfig = LlmConfig
    /\ epochs = 0
    /\ warmupEpochs = 0
    /\ voiceChannelEnabled = FALSE
    /\ voiceMode = VoiceEnv("dry-run", FALSE, "ok")
    /\ minEpochForVoice = 2
    /\ epoch = 1
    /\ leadIdx = 1
    /\ events = << >>
    /\ epochScores = << >>
    /\ rounds = << >>
    /\ voiceFollowups = << >>
    /\ strategy = Undefined
    /\ candidateScores = EmptyMap
    /\ clock = 0
    /\ outboundRequests = 0
    /\ artifactsFile = Undefined
    /\ dispatcherCalls = << >>
    /\ decays = 0
    /\ pc = "stopped"
    /\ once \in BOOLEAN
    /\ webhookSecret \in {"", "secret"}
    /\ signatureToleranceSeconds \in {300, 60}
    /\ server = "listening"
    /\ request = Null
    /\ responses = << >>
    /\ latestFile = Null
    /\ eventsFile = << >>
    /\ learningFile = Null
    /\ handlers = << >>

NextWebhook == (\E req \in Requests : HandleRequest(req)) \/ Exit

SpecWebhook == InitWebhook /\ [][NextWebhook]_vars

(***************************************************************************)
(* Runs whose updates are repeated on a clone of the memory                *)
(***************************************************************************)
\* the runs of the three-lead scenario, and the runs on a memory whose
\* history is at the cap (the update replaces the history array)
InitClones == InitScenario \/ InitHistory

SpecClones == InitClones /\ [][Next]_vars

(***************************************************************************)
(* Runs that the dispatcher may end before the memory is written           *)
(***************************************************************************)
\* the voice channel off, dry-run, and live calls to a provider that
\* accepts or cannot be reached
AbortSetups ==
    { [enabled |-> FALSE, env |-> VoiceEnv("dry-run", FALSE, "ok")],
      [enabled |-> TRUE, env |-> VoiceEnv("dry-run", FALSE, "ok")],
      [enabled |-> TRUE, env |-> VoiceEnv("live", TRUE, "ok")],
      [enabled |-> TRUE, env |-> VoiceEnv("live", TRUE, "network_error")] }

\* runs on the reset memory and on a saved one, over one to MaxLeads leads
\* and over the first three leads (two of them are escalated), with voice
\* escalation open from round 1 or from round 2
InitAbort ==
    InitRunFrom({INITIAL_MEMORY, PriorMemory},
                LeadLists(1, MaxLeads) \cup {SubSeq(AllLeads, 1, 3)},
                {Answering(Candidates(Lo, Hi, Lo)), Answering(Uniform(40))},
                AbortSetups, {1, 2}, {LlmConfig})

SpecAbort == InitAbort /\ [][Next]_vars

(***************************************************************************)
(* Runs over leads that share an objection category                        *)
(***************************************************************************)
\* the first three leads of data/leads.json: price, trust, price
SharedCategoryLeads == SubSeq(AllLeads, 1, 3)

\* runs on the reset memory and on a memory whose entry for trust names no
\* catalog strategy, with one of three candidate maps per lead
InitPolicy ==
    InitRun({INITIAL_MEMORY, ForeignMemory}, {SharedCategoryLeads},
            {Candidates(Hi, Lo, Lo), Candidates(Lo, Hi, Lo), Candidates(Lo, Hi, Hi)},
            {[enabled |-> TRUE, env |-> VoiceEnv("dry-run", FALSE, "ok")]})

SpecPolicy == InitPolicy /\ [][Next]_vars

(***************************************************************************)
(* The webhook server with several requests in flight                      *)
(***************************************************************************)
\* an end handler: the body of its request, the await it stands at (or done)
\* and the local variable learning of upsertLearning
Handler(rawBody, at, learning) == [rawBody |-> rawBody, at |-> at, learning |-> learning]

\* the handler i moved on to the given await
Moved(i, at) == [handlers EXCEPT ![i].at = at]

\* the body of a request is complete and its end handler starts: a request
\* that is refused or whose body is not JSON is answered at once, any other
\* runs handleWebhook up to its first await
Arrive(req) ==
    /\ server = "listening"
    /\ Len(handlers) < MaxRequests
    /\ request' = req
    /\ IF Refusal(req) # Null
       THEN /\ responses' = Append(responses, Refusal(req))
            /\ handlers' = Append(handlers, Handler(req.rawBody, "done", Null))
       ELSE IF ~req.rawBody.json
       THEN /\ responses' = Append(responses, Respond(400, "INVALID_JSON"))
            /\ handlers' = Append(handlers, Handler(req.rawBody, "done", Null))
       ELSE /\ handlers' = Append(handlers, Handler(req.rawBody, "latest", Null))
            /\ UNCHANGED responses
    /\ UNCHANGED <<once, webhookSecret, signatureToleranceSeconds, server,
                   latestFile, eventsFile, learningFile>>
    /\ UNCHANGED <<memoryFile, memory, epoch, leadIdx, events, epochScores, rounds,
                   voiceFollowups, strategy, candidateScores, clock, decays, pc,
                   dispatched, config>>

\* handleWebhook: await writeJson(LATEST_PATH, ...)
WriteLatest(i) ==
    /\ handlers[i].at = "latest"
    /\ latestFile' = handlers[i].rawBody
    /\ handlers' = Moved(i, "append")
    /\ UNCHANGED <<once, webhookSecret, signatureToleranceSeconds, server, request,
                   responses, eventsFile, learningFile>>
    /\ UNCHANGED <<memoryFile, memory, epoch, leadIdx, events, epochScores, rounds,
                   voiceFollowups, strategy, candidateScores, clock, decays, pc,
                   dispatched, config>>

\* handleWebhook: await appendNdjson(NDJSON_PATH, ...)
AppendEvent(i) ==
    /\ handlers[i].at = "append"
    /\ eventsFile' = Append(eventsFile, handlers[i].rawBody)
    /\ handlers' = Moved(i, "read")
    /\ UNCHANGED <<once, webhookSecret, signatureToleranceSeconds, server, request,
                   responses, latestFile, learningFile>>
    /\ UNCHANGED <<memoryFile, memory, epoch, leadIdx, events, epochScores, rounds,
                   voiceFollowups, strategy, candidateScores, clock, decays, pc,
                   dispatched, config>>

\* upsertLearning: await fs.readFile(LEARNING_PATH) into the local learning
ReadLearning(i) ==
    /\ handlers[i].at = "read"
    /\ handlers' = [handlers EXCEPT ![i].at = "write",
                                    ![i].learning = readLearning(learningFile)]
    /\ UNCHANGED <<once, webhookSecret, signatureToleranceSeconds, server, request,
                   responses, latestFile, eventsFile, learningFile>>
    /\ UNCHANGED <<memoryFile, memory, epoch, leadIdx, events, epochScores, rounds,
                   voiceFollowups, strategy, candidateScores, clock, decays, pc,
                   dispatched, config>>

\* upsertLearning: the local learning is updated and written,
\* await writeJson(LEARNING_PATH, learning)
WriteLearning(i) ==
    /\ handlers[i].at = "write"
    /\ learningFile' = upsertLearning(handlers[i].learning,
                                      extractCallEvent(handlers[i].rawBody))
    /\ handlers' = Moved(i, "respond")
    /\ UNCHANGED <<once, webhookSecret, signatureToleranceSeconds, server, request,
                   responses, latestFile, eventsFile>>
    /\ UNCHANGED <<memoryFile, memory, epoch, leadIdx, events, epochScores, rounds,
                   voiceFollowups, strategy, candidateScores, clock, decays, pc,
                   dispatched, config>>

\* the end handler after await handleWebhook(rawBody): the response 200
RespondOk(i) ==
    /\ handlers[i].at = "respond"
    /\ responses' = Append(responses, Respond(200, Undefined))
    /\ handlers' = Moved(i, "done")
    /\ UNCHANGED <<once, webhookSecret, signatureToleranceSeconds, server, request,
                   latestFile, eventsFile, learningFile>>
    /\ UNCHANGED <<memoryFile, memory, epoch, leadIdx, events, epochScores, rounds,
                   voiceFollowups, strategy, candidateScores, clock, decays, pc,
                   dispatched, config>>

\* requests without a signature header: an event of lead L1, an event
\* without a lead id, a body that is not JSON, and a GET
UnsignedRequests ==
    { Request("POST", WEBHOOK_PATH, NoHeader, rawBody) : rawBody \in Bodies }
      \cup { Request("GET", WEBHOOK_PATH, NoHeader, Body("", FALSE)) }

\* the server has been started without --once and without a secret; there is
\* no learning file
InitInFlight ==
    /\ InitWebhook
    /\ ~once
    /\ webhookSecret = ""
    /\ signatureToleranceSeconds = 300

\* Node runs one continuation at a time, and the handlers of several
\* connections take turns at their awaits
NextInFlight ==
    \/ \E req \in UnsignedRequests : Arrive(req)
    \/ \E i \in 1..Len(handlers) :
          \/ WriteLatest(i)
          \/ AppendEvent(i)
          \/ ReadLearning(i)
          \/ WriteLearning(i)
          \/ RespondOk(i)

SpecInFlight == InitInFlight /\ [][NextInFlight]_vars

(***************************************************************************)
(* Properties                                                              *)
(***************************************************************************)
\* the lead being processed and its objection category
CurrentLead == leads[leadIdx]

\* main holds a selected strategy for the current lead, and the memory is
\* still the one the selection read
Selected == pc \in {"evaluate", "update"}

HasEntry(mem, category) == category \in DOMAIN mem.objectionPolicy

CatalogIndex(s) == CHOOSE i \in 1..Len(STRATEGIES) : STRATEGIES[i] = s

\* s has the highest avgScore, and no strategy listed before it has as much
FirstHighestAverage(mem, s) ==
    /\ s \in StrategySet
    /\ \A t \in StrategySet : AvgOf(mem, t) <= AvgOf(mem, s)
    /\ \A j \in 1..(CatalogIndex(s) - 1) : AvgOf(mem, STRATEGIES[j]) < AvgOf(mem, s)

\* C1 as stated: after warm-up the selected strategy is the objectionPolicy
\* entry of the lead's category whenever there is one, and otherwise the
\* first catalog strategy with the highest avgScore
C1_EntryAlwaysReturned ==
    (Selected /\ epoch > warmupEpochs) =>
        IF HasEntry(memory, CurrentLead.objectionType)
        THEN strategy = memory.objectionPolicy[CurrentLead.objectionType]
        ELSE FirstHighestAverage(memory, strategy)

\* C1 amended: after warm-up the selected strategy is the objectionPolicy
\* entry of the lead's category when that entry is a catalog strategy;
\* with no entry, or with an entry that names no catalog strategy, it is the
\* first catalog strategy with the highest avgScore
C1_Selection ==
    (Selected /\ epoch > warmupEpochs) =>
        IF /\ HasEntry(memory, CurrentLead.objectionType)
           /\ memory.objectionPolicy[CurrentLead.objectionType] \in StrategySet
        THEN strategy = memory.objectionPolicy[CurrentLead.objectionType]
        ELSE FirstHighestAverage(memory, strategy)

\* C1 witness: a lead without a policy entry is selected by average, two
\* strategies share the highest average and the first of them is not the
\* first of the catalog
C1_Witness ==
    /\ Selected
    /\ epoch > warmupEpochs
    /\ ~HasEntry(memory, CurrentLead.objectionType)
    /\ strategy = STRATEGIES[2]
    /\ AvgOf(memory, STRATEGIES[3]) = AvgOf(memory, STRATEGIES[2])

\* the catalog strategy of position k (0-based) in the warm-up rotation
Rotation(k) == STRATEGIES[(k % Len(STRATEGIES)) + 1]

\* C2: in a warm-up round the k-th lead (from 0, in input order) is given
\* catalog[k mod catalogSize], whatever the memory holds: this is so for the
\* lead being processed, for the events of the current round and for the
\* events of every completed warm-up round
C2_WarmupRotation ==
    /\ (pc \in {"evaluate", "update", "voice"} /\ epoch <= warmupEpochs) =>
           strategy = Rotation(leadIdx - 1)
    /\ (pc # "epoch" /\ epoch <= warmupEpochs) =>
           \A k \in 1..Len(events) :
               /\ events[k].leadId = leads[k].id
               /\ events[k].strategy = Rotation(k - 1)
    /\ \A r \in 1..Len(rounds) :
           rounds[r].epoch <= warmupEpochs =>
               /\ Len(rounds[r].events) = Len(leads)
               /\ \A k \in 1..Len(leads) :
                      /\ rounds[r].events[k].leadId = leads[k].id
                      /\ rounds[r].events[k].strategy = Rotation(k - 1)

\* C2 witness: the fourth lead of a warm-up round gets the first catalog
\* strategy again although the memory maps its category to another one
C2_Witness ==
    /\ pc = "evaluate"
    /\ epoch <= warmupEpochs
    /\ leadIdx = Len(STRATEGIES) + 1
    /\ strategy = STRATEGIES[1]
    /\ HasEntry(memory, CurrentLead.objectionType)
    /\ memory.objectionPolicy[CurrentLead.objectionType] \in StrategySet \ {strategy}

\* the step of main that runs updateMemory
UpdateStep == pc = "update" /\ pc' = "voice"

\* C3: one memory update adds 1 to the uses of the used strategy and the
\* used score to its totalScore, and leaves uses, totalScore and avgScore of
\* every other strategy as they were
C3_UsedStatsOnly ==
    [][ UpdateStep =>
          LET old == memory.strategyStats
              new == memory'.strategyStats
          IN  /\ new[strategy].uses = old[strategy].uses + 1
              /\ new[strategy].totalScore =
                     old[strategy].totalScore + ScoreUnits(candidateScores[strategy].score)
              /\ \A s \in StrategySet \ {strategy} : new[s] = old[s] ]_vars

\* C3 witness: an update has run for a lead one of whose unused candidates
\* scored higher than the used strategy
C3_Witness ==
    /\ pc = "voice"
    /\ \E s \in StrategySet :
          /\ candidateScores[s].score > candidateScores[strategy].score
          /\ memory.strategyStats[s] = loaded.strategyStats[s]

\* the highest score of a candidate map
TopScore(cands) ==
    CHOOSE x \in {cands[s].score : s \in DOMAIN cands} :
        \A s \in DOMAIN cands : cands[s].score <= x

\* C4: after the memory update of a lead, in any round, the policy entry of
\* the lead's category is a strategy with the highest score of the lead's
\* candidate map, and it is the used strategy when that one has the highest
\* score; what the entry held before does not matter
C4_PolicyIsBestCandidate ==
    pc = "voice" =>
        /\ HasEntry(memory, CurrentLead.objectionType)
        /\ LET entry == memory.objectionPolicy[CurrentLead.objectionType]
               top   == TopScore(candidateScores)
           IN  /\ entry \in StrategySet
               /\ candidateScores[entry].score = top
               /\ candidateScores[strategy].score = top => entry = strategy

\* C4 witness: in a warm-up round the update replaces the catalog strategy
\* the loaded memory held for the category by another one
C4_Witness ==
    /\ pc = "voice"
    /\ epoch <= warmupEpochs
    /\ HasEntry(loaded, CurrentLead.objectionType)
    /\ loaded.objectionPolicy[CurrentLead.objectionType] \in StrategySet
    /\ memory.objectionPolicy[CurrentLead.objectionType] #
           loaded.objectionPolicy[CurrentLead.objectionType]

Abs(x) == IF x < 0 THEN -x ELSE x

\* C5: in every state reached by memory updates from the reset memory, the
\* avgScore of a strategy is totalScore / uses rounded to 4 decimals when
\* the strategy has been used, and 0 when it has not
C5_AverageIsQuotient ==
    \A s \in StrategySet :
        LET st == memory.strategyStats[s]
        IN  IF st.uses > 0
            THEN 2 * Abs(st.avgScore * st.uses - st.totalScore) <= st.uses
            ELSE st.avgScore = 0 /\ st.totalScore = 0

\* C5 witness: a strategy used three times whose average is a rounded
\* quotient
C5_Witness ==
    \E s \in StrategySet :
        /\ memory.strategyStats[s].uses >= 3
        /\ memory.strategyStats[s].avgScore * memory.strategyStats[s].uses #
               memory.strategyStats[s].totalScore

\* C6: a memory update appends exactly one entry at the end of the history,
\* keeps the earlier entries in their order and drops exactly the oldest
\* ones beyond 200, so that the history never holds more than 200 entries
C6_HistoryIsRecentEvents ==
    [][ UpdateStep =>
          LET old == memory.history
              new == memory'.history
              n   == Len(new)
          IN  /\ n = Min(Len(old) + 1, 200)
              /\ new[n].timestamp = clock'
              /\ new[n].leadId = CurrentLead.id
              /\ new[n].epoch = epoch
              /\ new[n].strategy = strategy
              /\ new[n].score = candidateScores[strategy].score
              /\ \A i \in 1..(n - 1) : new[i] = old[Len(old) - (n - 1) + i] ]_vars

\* C6 witness: the history holds 200 entries after an update, its two
\* oldest entries (stamped 1 and 2) are gone and the newest is the last
C6_Witness ==
    /\ pc = "voice"
    /\ Len(memory.history) = 200
    /\ memory.history[1].timestamp = 3
    /\ memory.history[200].timestamp = clock
    /\ memory.history[200].leadId = CurrentLead.id

\* the step of main that runs decayExploration
DecayStep == pc = "lead" /\ pc' = "epoch"

\* max(minEpsilon, epsilon * decay) in units of 1 / (EpsDen * DecayDen)
DecayTarget(policy) ==
    IF policy.minEpsilon * DecayDen >= policy.epsilon * policy.decay
    THEN policy.minEpsilon * DecayDen
    ELSE policy.epsilon * policy.decay

\* x has at most 4 decimals
FourDecimals(x) == x % 10 = 0

\* C7: a decay sets epsilon to max(minEpsilon, epsilon * decay) rounded to 4
\* decimals (a 4-decimal value at most half a unit of the 4th decimal away
\* from it) and leaves decay and minEpsilon alone, for every policy triple
\* with values in [0,1]
C7_DecayFormula ==
    [][ DecayStep =>
          /\ FourDecimals(memory'.policy.epsilon)
          /\ 2 * Abs(memory'.policy.epsilon * DecayDen - DecayTarget(memory.policy))
                 <= 10 * DecayDen
          /\ memory'.policy.decay = memory.policy.decay
          /\ memory'.policy.minEpsilon = memory.policy.minEpsilon ]_vars

\* C7 witness: after the first decay epsilon differs from the exact maximum,
\* so the rounding has changed the value, and the floor was the larger term
C7_Witness ==
    /\ decays = 1
    /\ pc = "epoch"
    /\ loaded.policy.minEpsilon * DecayDen > loaded.policy.epsilon * loaded.policy.decay
    /\ memory.policy.epsilon * DecayDen # DecayTarget(loaded.policy)

C9_FloorHolds ==
    decays > 0 => memory.policy.minEpsilon <= memory.policy.epsilon

\* epsilon after n decays of the policy
RECURSIVE DecayTimes(_, _)
DecayTimes(policy, n) ==
    IF n = 0 THEN policy.epsilon
    ELSE decayedEpsilon([policy EXCEPT !.epsilon = DecayTimes(policy, n - 1)])

\* C10: decay and run counter move once per completed round and at no other
\* point: in every state of a run, with epoch - 1 rounds completed, epsilon
\* is the loaded epsilon decayed epoch - 1 times and runs is the loaded runs
\* plus epoch - 1, whatever the number of leads; a finished run of N rounds
\* has completed N rounds
C10_OncePerRound ==
    /\ Len(rounds) = epoch - 1
    /\ decays = epoch - 1
    /\ memory.runs = loaded.runs + (epoch - 1)
    /\ memory.policy.epsilon = DecayTimes(loaded.policy, epoch - 1)
    /\ pc = "done" => epoch - 1 = epochs

\* C10 witness: a finished run of two rounds over two leads with epsilon
\* decayed twice
C10_Witness ==
    /\ pc = "done"
    /\ epochs = 2
    /\ Len(leads) = 2
    /\ memory.runs = loaded.runs + 2
    /\ memory.policy.epsilon = DecayTimes(loaded.policy, 2)
    /\ memory.policy.epsilon < DecayTimes(loaded.policy, 1)

\* the step of main that decides on the escalation of the current lead
EscalationStep == pc = "voice"

\* the decision taken in an escalation step: main has called
\* maybeStartVoiceFollowup, so the event does not say NO_ESCALATION
Escalated ==
    \/ pc' = "fatal"
    \/ events'[Len(events')].voice # [attempted |-> FALSE, reason |-> "NO_ESCALATION"]

NonBlank(phoneNumber) ==
    /\ phoneNumber.type = "string"
    /\ \E i \in 1..Len(phoneNumber.chars) : phoneNumber.chars[i] # " "

\* the first three conditions of the decision
EscalationOpen(lead) ==
    /\ epoch >= minEpochForVoice
    /\ ToLowerCase(lead.channel) \in {"instagram_dm", "whatsapp"}
    /\ NonBlank(lead.phoneNumber)

\* the example of the claim
SkepticalLead(phoneNumber) == Lead("E1", "price", "instagram_dm", "skeptical", phoneNumber)

EscalationExample ==
    /\ shouldEscalateToVoice(SkepticalLead(ValidPhone), Result(650, 40, "llm"), 2, 2)
    /\ ~shouldEscalateToVoice(SkepticalLead(Phone(<< >>)), Result(650, 40, "llm"), 2, 2)

\* C11 as stated: the decision is true iff the round index has reached
\* minEpochForVoice, the channel is (case-insensitively) a text channel, the
\* phone number is a string that is non-empty after trimming, and the
\* sentiment is skeptical, hesitant or overwhelmed or the used result's
\* conversionProbability is below 0.58
C11_SentimentAsWritten ==
    [][ EscalationStep =>
          ( Escalated <=>
              /\ EscalationOpen(CurrentLead)
              /\ \/ CurrentLead.sentiment \in {"skeptical", "hesitant", "overwhelmed"}
                 \/ candidateScores[strategy].conversionProbability < 58 ) ]_vars

\* C11 amended: as stated, with the sentiment compared case-insensitively as
\* the channel is; no follow-up is recorded for a round before
\* minEpochForVoice, and the skeptical lead of the example escalates in
\* round 2 with a valid phone and does not with an empty one
C11_EscalationDecision ==
    [][ EscalationStep =>
          /\ Escalated <=>
                /\ EscalationOpen(CurrentLead)
                /\ \/ ToLowerCase(CurrentLead.sentiment)
                          \in {"skeptical", "hesitant", "overwhelmed"}
                   \/ candidateScores[strategy].conversionProbability < 58
          /\ \A i \in 1..Len(voiceFollowups') :
                voiceFollowups'[i].epoch >= minEpochForVoice
          /\ EscalationExample ]_vars

\* C11 witness: in round 2, the first round open for escalation, a lead
\* whose sentiment is written Skeptical and whose conversionProbability is
\* exactly 0.58 has been escalated and the follow-up is recorded
C11_Witness ==
    /\ pc = "lead"
    /\ epoch = 2
    /\ minEpochForVoice = 2
    /\ Len(events) = 1
    /\ leads[1].sentiment = "Skeptical"
    /\ events[1].conversionProbability = 58
    /\ events[1].voice.attempted
    /\ Len(voiceFollowups) = 1

\* the lead has no phone number the dispatcher accepts
LacksValidPhone(lead) == normalizeE164Phone(lead.phoneNumber) = Undefined

\* C12 as stated: for a lead whose phoneNumber is missing, empty after
\* trimming or not valid E.164, no escalation is triggered and no voice
\* follow-up attempt is recorded, whatever the sentiment, the conversion
\* probability and the round index
C12_NoEscalationWithoutValidPhone ==
    [][ (EscalationStep /\ LacksValidPhone(CurrentLead)) =>
          /\ ~Escalated
          /\ voiceFollowups' = voiceFollowups ]_vars

\* C12 amended: for a lead whose phoneNumber is missing or empty after
\* trimming no escalation is triggered, no attempt is recorded and the
\* dispatcher is not called; a lead whose phoneNumber is non-empty but not
\* valid E.164 is escalated as any other lead is, and with the voice
\* channel enabled its attempt is recorded as not ok with INVALID_PHONE
C12_NoEscalationWithoutPhone ==
    [][ (EscalationStep /\ LacksValidPhone(CurrentLead)) =>
          IF NonBlank(CurrentLead.phoneNumber)
          THEN (Escalated /\ voiceChannelEnabled) =>
                  /\ pc' = "lead"
                  /\ events'[Len(events')].voice.status = "INVALID_PHONE"
                  /\ voiceFollowups' =
                        Append(voiceFollowups,
                               [ epoch |-> epoch, leadId |-> CurrentLead.id,
                                 voiceStatus |-> "INVALID_PHONE",
                                 voiceMode |-> voiceMode.mode, ok |-> FALSE ])
          ELSE /\ ~Escalated
               /\ voiceFollowups' = voiceFollowups
               /\ UNCHANGED dispatched ]_vars

\* C12 witness: a skeptical lead on a text channel with a blank phone number
\* has been processed in a round open for escalation, with the voice channel
\* enabled, and was not escalated
C12_Witness ==
    /\ pc = "lead"
    /\ Len(events) = 1
    /\ epoch >= minEpochForVoice
    /\ voiceChannelEnabled
    /\ leads[1].channel = "instagram_dm"
    /\ leads[1].sentiment = "skeptical"
    /\ leads[1].phoneNumber = Phone(<<" ">>)
    /\ events[1].voice = [attempted |-> FALSE, reason |-> "NO_ESCALATION"]
    /\ voiceFollowups = << >>

\* the evaluation of strategy s for the current lead
Evaluation(s) ==
    evaluateLeadAdaptive(evaluatorConfig, CurrentLead, s, buildResponse(s, CurrentLead),
                         evaluator[CurrentLead.id][s])

\* C13: for every lead of every round, warm-up rounds included, the
\* candidate map starts empty, each evaluation adds the result of one
\* catalog strategy that is not yet in the map, nothing else changes the
\* map, and the memory update runs when the map holds every catalog
\* strategy; the score the update records and the round collects is the
\* map's entry for the selected strategy
C13_AllCandidatesBeforeUpdate ==
    [][ /\ pc' = "evaluate" /\ pc = "lead" => candidateScores' = EmptyMap
        /\ pc = "evaluate" =>
              \E s \in StrategySet \ DOMAIN candidateScores :
                  candidateScores' = (s :> Evaluation(s)) @@ candidateScores
        /\ pc \notin {"evaluate", "lead", "done", "fatal"} =>
              candidateScores' = candidateScores
        /\ UpdateStep =>
              /\ DOMAIN candidateScores = StrategySet
              /\ memory'.history[Len(memory'.history)].score = candidateScores[strategy].score
              /\ memory'.history[Len(memory'.history)].conversionProbability
                    = candidateScores[strategy].conversionProbability
              /\ epochScores' = Append(epochScores, candidateScores[strategy].score) ]_vars

\* C13 witness: in a warm-up round the update is about to run with all
\* three candidates collected, and the selected strategy's result is not
\* the best of them
C13_Witness ==
    /\ pc = "update"
    /\ epoch <= warmupEpochs
    /\ DOMAIN candidateScores = StrategySet
    /\ strategy = STRATEGIES[1]
    /\ candidateScores[STRATEGIES[1]].score < candidateScores[STRATEGIES[3]].score

\* the number of memory updates the run has applied, as main's position
\* gives it: all leads of the completed rounds and the leads of the current
\* round up to the current one
UpdatesDone ==
    (epoch - 1) * Len(leads)
      + (IF pc \in {"epoch", "done"} THEN 0
         ELSE IF pc \in {"voice", "fatal"} THEN leadIdx ELSE leadIdx - 1)

\* the history entries the run has appended (the loaded history is short
\* of the cap by more than a run appends)
Appended == SubSeq(memory.history, Len(loaded.history) + 1, Len(memory.history))

\* C14: the run appends one history entry per update, ordered by round and
\* within a round by lead input order, in increasing time; while a lead of
\* round i is selected, evaluated or updated the decays and run-counter
\* increments of exactly the i - 1 earlier rounds are done
C14_UpdatesInOrder ==
    /\ Len(Appended) = UpdatesDone
    /\ \A k \in 1..Len(Appended) :
          /\ Appended[k].epoch = ((k - 1) \div Len(leads)) + 1
          /\ Appended[k].leadId = leads[((k - 1) % Len(leads)) + 1].id
          /\ k > 1 => Appended[k - 1].timestamp < Appended[k].timestamp
    /\ pc \in {"lead", "evaluate", "update", "voice"} =>
          /\ memory.runs = loaded.runs + (epoch - 1)
          /\ decays = epoch - 1
          /\ Len(rounds) = epoch - 1

\* C14 witness: a finished run of two rounds over two leads has appended
\* four entries, both leads of round 1 before both leads of round 2
C14_Witness ==
    /\ pc = "done"
    /\ Len(leads) = 2
    /\ Len(Appended) = 4
    /\ <<Appended[1].epoch, Appended[2].epoch, Appended[3].epoch, Appended[4].epoch>>
          = <<1, 1, 2, 2>>
    /\ <<Appended[1].leadId, Appended[2].leadId, Appended[3].leadId, Appended[4].leadId>>
          = <<leads[1].id, leads[2].id, leads[1].id, leads[2].id>>

\* C15: the strategy selected for a lead is a member of the catalog, in
\* warm-up rounds and after, at every lead position and for every loaded
\* memory (reset memory with empty objectionPolicy and all counts zero, a
\* policy entry outside the catalog), and so is every strategy recorded in
\* the round's events
C15_SelectionInCatalog ==
    /\ pc \in {"evaluate", "update", "voice"} => strategy \in StrategySet
    /\ \A i \in 1..Len(events) : events[i].strategy \in StrategySet

\* C15 witness: after warm-up a lead is being processed whose category has
\* a policy entry that names no catalog strategy
C15_Witness ==
    /\ pc = "evaluate"
    /\ epoch > warmupEpochs
    /\ HasEntry(memory, CurrentLead.objectionType)
    /\ memory.objectionPolicy[CurrentLead.objectionType] \notin StrategySet
    /\ strategy \in StrategySet

\* the LLM's response to the request for strategy s and the current lead
Response(s) == evaluator[CurrentLead.id][s]

\* the rule-based evaluation of the current lead and strategy s
RuleResult(s) == evaluateByRules(CurrentLead, s, buildResponse(s, CurrentLead))

\* the text evaluateByLlm reports for a failed request
ErrorText(kind) ==
    CASE kind \in {"timeout", "network_error"} -> "LLM request failed"
      [] kind = "http_error" -> "LLM HTTP"
      [] kind = "not_json" -> "LLM response is not JSON"
      [] kind = "no_object" -> "LLM returned invalid scoring payload"

\* C16: when the LLM is used and its call fails (abort by timeout, network
\* error, non-OK status, body that is not JSON, content without a JSON
\* object), the candidate's result is tagged rule_fallback, has the score
\* and conversionProbability of the rule-based evaluation of the same lead
\* and strategy and the error text as notes, and main goes on with the next
\* candidate or with the update; no run ends in the catch handler
C16_FallbackOnFailure ==
    [][ (pc = "evaluate" /\ shouldUseLlm(evaluatorConfig)) =>
          \A s \in DOMAIN candidateScores' \ DOMAIN candidateScores :
              Response(s) \in LlmFailures =>
                  /\ candidateScores'[s].source = "rule_fallback"
                  /\ candidateScores'[s].score = RuleResult(s).score
                  /\ candidateScores'[s].conversionProbability
                        = RuleResult(s).conversionProbability
                  /\ candidateScores'[s].notes = ErrorText(Response(s).kind)
                  /\ pc' \in {"evaluate", "update"}
                  /\ pc' # "fatal" ]_vars

\* C16 witness: a run has finished in which the request for the first
\* candidate of a lead timed out, the candidate got the rule score as a
\* fallback, and the last candidate was scored by the LLM
C16_Witness ==
    /\ pc = "done"
    /\ epochs = MaxEpochs
    /\ Len(leads) = 1
    /\ evaluator[leads[1].id][STRATEGIES[1]] = LlmFailure("timeout")
    /\ DOMAIN candidateScores = StrategySet
    /\ candidateScores[STRATEGIES[1]].source = "rule_fallback"
    /\ candidateScores[STRATEGIES[1]].notes = "LLM request failed"
    /\ candidateScores[STRATEGIES[3]].source = "llm"
    /\ Len(memory.history) = MaxEpochs

\* a payload whose numbers are finite and whose score lies outside [1,10]
\* or whose conversionProbability lies outside [0.05,0.95]
OutOfRange(response) ==
    /\ response \in LlmPayloads
    /\ response.score.finite
    /\ response.conversionProbability.finite
    /\ \/ response.score.units < 1000
       \/ response.score.units > 10000
       \/ response.conversionProbability.units < 50
       \/ response.conversionProbability.units > 950

\* the candidates of the current lead that the LLM was asked about
AskedCandidates ==
    IF pc \in {"evaluate", "update", "voice"} /\ shouldUseLlm(evaluatorConfig)
    THEN DOMAIN candidateScores ELSE {}

\* C17 as stated: a response with a number outside its range is treated as
\* a timeout is, the result is the rule-based fallback and tagged so
C17_OutOfRangeFallsBack ==
    \A s \in AskedCandidates :
        OutOfRange(Response(s)) =>
            /\ candidateScores[s].source = "rule_fallback"
            /\ candidateScores[s].score = RuleResult(s).score

\* C17, what normalizeScoring does instead: a response with finite numbers
\* outside the ranges is accepted, tagged llm, with the score clamped to
\* [1,10] and the conversionProbability to [0.05,0.95]; only a response
\* without a finite score is treated as a timeout is
C17_OutOfRangeClamped ==
    \A s \in AskedCandidates :
        /\ OutOfRange(Response(s)) =>
              /\ candidateScores[s].source = "llm"
              /\ candidateScores[s].score
                    = (IF Response(s).score.units < 1000 THEN 100
                       ELSE IF Response(s).score.units > 10000 THEN 1000
                       ELSE RoundDiv(Response(s).score.units, 10))
              /\ candidateScores[s].conversionProbability
                    = (IF Response(s).conversionProbability.units < 50 THEN 5
                       ELSE IF Response(s).conversionProbability.units > 950 THEN 95
                       ELSE RoundDiv(Response(s).conversionProbability.units, 10))
        /\ (Response(s) \in LlmPayloads /\ ~Response(s).score.finite) =>
              /\ candidateScores[s].source = "rule_fallback"
              /\ candidateScores[s].score = RuleResult(s).score

\* C17, the divergence reached: the LLM answered score 12 and conversionProbability 1.2 for
\* the first candidate, which main holds as an llm result of 10 and 0.95
\* that differs from the rule score
C17_Witness ==
    /\ pc = "update"
    /\ shouldUseLlm(evaluatorConfig)
    /\ Response(STRATEGIES[1]) = LlmPayload(Finite(12000), Finite(1200), Undefined)
    /\ candidateScores[STRATEGIES[1]].source = "llm"
    /\ candidateScores[STRATEGIES[1]].score = 1000
    /\ candidateScores[STRATEGIES[1]].conversionProbability = 95
    /\ RuleResult(STRATEGIES[1]).score # 1000

\* every score and conversionProbability of the sequence is in range
InRange(results) ==
    \A i \in 1..Len(results) :
        /\ results[i].score \in 100..1000
        /\ results[i].conversionProbability \in 5..95

\* C18: every result in the candidate map, whichever path produced it, has a
\* score in [1,10] and a conversionProbability in [0.05,0.95], and so have
\* the history entries, the round events and the collected round scores;
\* the average of every used strategy is in [1,10]
C18_ResultsInRange ==
    /\ \A s \in DOMAIN candidateScores :
          /\ candidateScores[s].score \in 100..1000
          /\ candidateScores[s].conversionProbability \in 5..95
          /\ candidateScores[s].source \in {"llm", "rule", "rule_fallback"}
    /\ InRange(memory.history)
    /\ InRange(events)
    /\ \A i \in 1..Len(rounds) : InRange(rounds[i].events)
    /\ \A i \in 1..Len(epochScores) : epochScores[i] \in 100..1000
    /\ \A s \in StrategySet :
          memory.strategyStats[s].uses > 0 =>
              /\ memory.strategyStats[s].avgScore >= 100 * 100
              /\ memory.strategyStats[s].avgScore <= 1000 * 100

\* C18 witness: a finished run whose last candidate map holds a fallback
\* result and two llm results, one of them clamped from a score above 10,
\* and whose history recorded the clamped score
C18_Witness ==
    /\ pc = "done"
    /\ Len(memory.history) > 0
    /\ DOMAIN candidateScores = StrategySet
    /\ candidateScores[STRATEGIES[1]].source = "rule_fallback"
    /\ candidateScores[STRATEGIES[2]].source = "llm"
    /\ candidateScores[STRATEGIES[2]].score = 1000
    /\ evaluator[leads[1].id][STRATEGIES[2]].score.units > 10000
    /\ \E i \in 1..Len(memory.history) : memory.history[i].score = 1000

\* the dispatcher is called for the current lead
Dispatched ==
    /\ EscalationStep
    /\ voiceChannelEnabled
    /\ shouldEscalateToVoice(CurrentLead, candidateScores[strategy], epoch, minEpochForVoice)

\* what the dispatcher comes to for the current lead
Dispatch == startElevenLabsOutboundCall(CurrentLead.phoneNumber, voiceMode)

\* C19: a dispatch that fails (rejected number, HTTP error, request error,
\* missing configuration) does not end the run: the lead's event records an
\* attempted escalation that is not ok, with its status, one follow-up is
\* recorded for it, and main goes on to the next lead
C19_DispatchFailureNotFatal ==
    [][ (Dispatched /\ ~Dispatch.ok) =>
          /\ pc' = "lead"
          /\ leadIdx' = leadIdx + 1
          /\ events'[Len(events')].voice.attempted
          /\ ~events'[Len(events')].voice.ok
          /\ events'[Len(events')].voice.status
                \in {"INVALID_PHONE", "MISSING_CONFIG", "HTTP_ERROR"}
          /\ Len(voiceFollowups') = Len(voiceFollowups) + 1 ]_vars

\* C19, what the code does for the failures that come back as a result:
\* rejected number, missing configuration and HTTP error are recorded and
\* the run goes on
C19_ReturnedFailureNotFatal ==
    [][ (Dispatched /\ ~Dispatch.ok /\ Dispatch.status # "THROWN") =>
          /\ pc' = "lead"
          /\ leadIdx' = leadIdx + 1
          /\ events'[Len(events')].voice
                = [ attempted |-> TRUE, ok |-> FALSE, status |-> Dispatch.status,
                    mode |-> voiceMode.mode ]
          /\ Len(voiceFollowups') = Len(voiceFollowups) + 1 ]_vars

\* C20: when the dispatcher is called with a number that is not valid E.164
\* it answers not ok with INVALID_PHONE, in live and in dry-run mode, no
\* request has been sent and no artifact written, and main records the
\* attempt and goes on to the next lead
C20_InvalidPhoneRejectedFirst ==
    [][ (Dispatched /\ LacksValidPhone(CurrentLead)) =>
          /\ ~Dispatch.ok
          /\ Dispatch.status = "INVALID_PHONE"
          /\ outboundRequests' = outboundRequests
          /\ artifactsFile' = artifactsFile
          /\ pc' = "lead"
          /\ leadIdx' = leadIdx + 1
          /\ events'[Len(events')].voice
                = [ attempted |-> TRUE, ok |-> FALSE, status |-> "INVALID_PHONE",
                    mode |-> voiceMode.mode ] ]_vars

\* C20 witness: a run in live mode has finished after a lead whose number
\* has no leading + was escalated and rejected, with no request sent and no
\* artifact written
C20_Witness ==
    /\ pc = "done"
    /\ voiceMode.mode = "live"
    /\ voiceMode.apiKey /\ voiceMode.agentId /\ voiceMode.agentPhoneNumberId
    /\ leads[1].phoneNumber = Phone(<<"0", "5", "0", "0", "0", "0", "0", "0", "1">>)
    /\ Len(voiceFollowups) > 0
    /\ voiceFollowups[1].voiceStatus = "INVALID_PHONE"
    /\ ~voiceFollowups[1].ok
    /\ outboundRequests = 0
    /\ artifactsFile = Undefined

\* + followed by 8 to 15 digits and nothing else
PlusAndDigits(cs) ==
    /\ Len(cs) \in 9..16
    /\ cs[1] = "+"
    /\ \A i \in 2..Len(cs) : cs[i] \in Digits

\* cs without blanks, parentheses and hyphens
Unformatted(cs) == SelectSeq(cs, LAMBDA c : c \notin {" ", "(", ")", "-"})

\* C21 as stated: the dispatcher accepts a number if and only if it is a +
\* followed by 8 to 15 digits and holds no other character
C21_AcceptsStrictE164Only ==
    [][ Dispatched =>
          ( Dispatch.status # "INVALID_PHONE"
              <=> PlusAndDigits(CurrentLead.phoneNumber.chars) ) ]_vars

\* C21 amended: the dispatcher accepts a number if and only if, with its
\* blanks, parentheses and hyphens removed, it is a + followed by 8 to 15
\* digits
C21_AcceptsFormattedE164 ==
    [][ Dispatched =>
          ( Dispatch.status # "INVALID_PHONE"
              <=> PlusAndDigits(Unformatted(CurrentLead.phoneNumber.chars)) ) ]_vars

\* C21 witness: a number of 15 digits was accepted by the dispatcher
C21_Witness ==
    /\ pc = "lead"
    /\ Len(events) = 1
    /\ leads[1].phoneNumber = Phone(<<"+">> \o Repeat("1", 15))
    /\ events[1].voice.attempted
    /\ events[1].voice.ok
    /\ events[1].voice.status = "SIMULATED"

\* the three ELEVENLABS_* settings are set
FullyConfigured ==
    voiceMode.apiKey /\ voiceMode.agentId /\ voiceMode.agentPhoneNumberId

\* the voice outcome recorded on the event of the lead just processed
RecordedVoice == events'[Len(events')].voice

\* C27: a dispatcher call with a valid number sends no request unless
\* VOICE_MODE is live: it answers ok with SIMULATED and writes the artifact;
\* in live mode it sends one request when API key, agent id and agent phone
\* number id are all set, and otherwise answers not ok with MISSING_CONFIG,
\* sends no request and writes nothing
C27_RequestOnlyWhenLiveAndConfigured ==
    [][ (Dispatched /\ ~LacksValidPhone(CurrentLead)) =>
          IF voiceMode.mode # "live"
          THEN /\ outboundRequests' = outboundRequests
               /\ artifactsFile' = "SIMULATED"
               /\ RecordedVoice = [ attempted |-> TRUE, ok |-> TRUE,
                                    status |-> "SIMULATED", mode |-> voiceMode.mode ]
          ELSE IF FullyConfigured
          THEN outboundRequests' = outboundRequests + 1
          ELSE /\ outboundRequests' = outboundRequests
               /\ artifactsFile' = artifactsFile
               /\ RecordedVoice = [ attempted |-> TRUE, ok |-> FALSE,
                                    status |-> "MISSING_CONFIG", mode |-> "live" ] ]_vars

\* C27 witness: a live run with the API key set and the agent id missing
\* has finished; the valid number was answered MISSING_CONFIG in both
\* rounds and no request was sent
C27_Witness ==
    /\ pc = "done"
    /\ voiceMode.mode = "live"
    /\ voiceMode.apiKey
    /\ ~voiceMode.agentId
    /\ leads[1].phoneNumber = ValidPhone
    /\ Len(voiceFollowups) = MaxEpochs
    /\ \A i \in 1..Len(voiceFollowups) : voiceFollowups[i].voiceStatus = "MISSING_CONFIG"
    /\ outboundRequests = 0
    /\ artifactsFile = Undefined

\* C22: a memory file that cannot be read ends main in its catch handler
\* (exit code 1) before any round: memory and file are left as they were
\* and no default memory is taken; a run that has left the loop ends with
\* exit code 0 only with the memory on disk, and ends in the catch handler
\* when the file does not hold the memory; nothing follows the catch handler
C22_PersistenceFailureAborts ==
    [][ /\ (pc = "start" /\ memoryFile = Unreadable) =>
              /\ pc' = "fatal"
              /\ memory' = memory
              /\ memoryFile' = memoryFile
              /\ rounds' = << >>
              /\ events' = << >>
        /\ (pc = "epoch" /\ epoch > epochs) =>
              \/ pc' = "done" /\ memoryFile' = memory
              \/ pc' = "fatal" /\ memory' = memory
        /\ pc # "fatal" ]_vars

\* C22 witness: a run with one round to play over at least one lead found
\* the memory file unreadable and ended in the catch handler with no round,
\* no memory and the file as it was
C22_Witness ==
    /\ pc = "fatal"
    /\ memoryFile = Unreadable
    /\ memory = Null
    /\ epochs >= 1
    /\ Len(leads) >= 1
    /\ rounds = << >>
    /\ epoch = 1
    /\ clock = 0

\* the ids of the first n leads, in input order
LeadIds(n) == [j \in 1..n |-> leads[j].id]

\* the ids of the leads of the given events, in order
EventIds(evs) == [j \in 1..Len(evs) |-> evs[j].leadId]

\* the rounds completed so far are rounds 1, 2, ... in this order, each
\* with one event per lead in input order; the round in progress is the one
\* after them and has processed the leads before the current one, once each
RoundsInOrder ==
    /\ epoch = Len(rounds) + 1
    /\ \A i \in 1..Len(rounds) :
          /\ rounds[i].epoch = i
          /\ EventIds(rounds[i].events) = LeadIds(Len(leads))
    /\ pc \in {"lead", "evaluate", "update", "voice"} =>
          /\ epoch <= epochs
          /\ EventIds(events) = LeadIds(Len(events))
          /\ Len(events) = leadIdx - 1
          /\ leadIdx <= Len(leads) + 1

\* main has returned: all rounds played and the memory written
RunComplete ==
    /\ pc = "done"
    /\ Len(rounds) = epochs
    /\ memoryFile = memory

\* the awaited dispatcher calls made so far have returned a result
DispatchReturns == pc # "fatal" /\ ~AwaitsDispatch

\* C23: the rounds are played in increasing order, each over every lead
\* once in input order, before main returns with the memory written; main
\* ends unless a dispatcher call stays pending, and returns with all rounds
\* played when every dispatcher call returns a result, also when the LLM
\* service never answers
C23_RunCompletes ==
    /\ []RoundsInOrder
    /\ [](pc = "done" => RunComplete)
    /\ <>(pc \in {"done", "fatal"} \/ AwaitsDispatch)
    /\ ([]DispatchReturns) => <>[]RunComplete

\* C23 witness: a run of MaxEpochs rounds over MaxLeads leads has returned;
\* the LLM service never answered, every result is the fallback, and a
\* live dispatcher call was made and returned a refusal
C23_Witness ==
    /\ RunComplete
    /\ epochs = MaxEpochs
    /\ Len(leads) = MaxLeads
    /\ shouldUseLlm(evaluatorConfig)
    /\ \A i \in 1..Len(rounds) : \A j \in 1..Len(leads) :
          rounds[i].events[j].evaluator = "rule_fallback"
    /\ voiceMode.provider = "http_error"
    /\ outboundRequests >= 1

\* the candidate map the evaluator gives for the current lead
CurrentCandidates == [s \in StrategySet |-> Evaluation(s)]

\* what round 1 wrote into the policy for the current lead's category: the
\* outcome of updateMemory's comparison of the candidates with the strategy
\* round 1 used for this lead
WrittenByRoundOne ==
    bestForLead(rounds[1].events[leadIdx].strategy,
                Evaluation(rounds[1].events[leadIdx].strategy), CurrentCandidates)

\* C24: in a run of 2 rounds with 1 warm-up round over leads of the
\* categories price, trust and timing on the reset memory, round 1 uses
\* consultative, social_proof and urgent_offer for leads 1, 2 and 3; epsilon
\* is 0.315 after round 1; and the strategy selected in round 2 is the
\* policy entry of the lead's category as round 1 wrote it
C24_Scenario ==
    (epochs = 2 /\ warmupEpochs = 1) =>
        /\ (Selected /\ epoch = 1) =>
              strategy = <<"consultative", "social_proof", "urgent_offer">>[leadIdx]
        /\ (epoch = 2 /\ Len(rounds) = 1) =>
              /\ memory.policy.epsilon = 31500
              /\ EventIds(rounds[1].events) = <<"L1", "L2", "L4">>
              /\ [j \in 1..3 |-> rounds[1].events[j].strategy] = STRATEGIES
        /\ (Selected /\ epoch = 2) =>
              /\ strategy = memory.objectionPolicy[CurrentLead.objectionType]
              /\ strategy = WrittenByRoundOne

\* C24 witness: the scenario has run to its end; round 2 used social_proof
\* for the price lead, consultative for the trust lead and urgent_offer for
\* the timing lead, and epsilon has decayed twice
C24_Witness ==
    /\ pc = "done"
    /\ epochs = 2
    /\ warmupEpochs = 1
    /\ [j \in 1..3 |-> leads[j].objectionType] = <<"price", "trust", "timing">>
    /\ [j \in 1..3 |-> rounds[1].events[j].strategy] =
          <<"consultative", "social_proof", "urgent_offer">>
    /\ [j \in 1..3 |-> rounds[2].events[j].strategy] =
          <<"social_proof", "consultative", "urgent_offer">>
    /\ memory.policy.epsilon = 22050

\* the history entries without their timestamps
Untimed(history) == [i \in 1..Len(history) |-> [history[i] EXCEPT !.timestamp = 0]]

\* the memory of the run and a clone of it, before the update of the
\* current lead
Cloned == deepClone(Objects("memory", memory), "memory", "clone")

\* the update of the current lead applied to the clone, at a later time
\* than the update of the run
UpdatedClone ==
    updateMemoryAt(Cloned, "clone", CurrentLead, strategy, candidateScores[strategy],
                   epoch, candidateScores, clock' + 1)

AveragesNeverFall ==
    /\ \A i \in 1..(Len(rounds) - 1) : rounds[i + 1].avgScore >= rounds[i].avgScore
    /\ summaryDelta(rounds) >= 0

\* no two leads have the same objection category
DistinctCategories ==
    \A i, j \in 1..Len(leads) :
        leads[i].objectionType = leads[j].objectionType => i = j

TotalUses(mem) == SumSeq([i \in 1..Len(STRATEGIES) |-> mem.strategyStats[STRATEGIES[i]].uses])

\* C30: no step lowers the uses of a strategy; the update for a lead adds
\* exactly 1 to the sum of uses and no other step changes it; every
\* completed round has one event per lead; and a run of N rounds over L
\* leads on the reset memory ends with the sum of uses N*L, runs N and a
\* history of min(200, N*L) entries
C30_CountsConserved ==
    [][ /\ \A s \in StrategySet :
              memory'.strategyStats[s].uses >= memory.strategyStats[s].uses
        /\ TotalUses(memory') = TotalUses(memory) + (IF UpdateStep THEN 1 ELSE 0)
        /\ \A i \in 1..Len(rounds') : Len(rounds'[i].events) = Len(leads)
        /\ (pc' = "done" /\ loaded = INITIAL_MEMORY) =>
              /\ TotalUses(memory') = epochs * Len(leads)
              /\ memory'.runs = epochs
              /\ Len(memory'.history) = Min(HISTORY_LIMIT, epochs * Len(leads))
              /\ Len(rounds') = epochs
              /\ memoryFile' = memory' ]_vars

\* C30 witness: a run of MaxEpochs rounds over MaxLeads leads on the reset
\* memory has ended with MaxEpochs * MaxLeads uses
C30_Witness ==
    /\ pc = "done"
    /\ loaded = INITIAL_MEMORY
    /\ epochs = MaxEpochs
    /\ Len(leads) = MaxLeads
    /\ TotalUses(memory) = MaxEpochs * MaxLeads
    /\ memory.runs = MaxEpochs
    /\ Len(memory.history) = MaxEpochs * MaxLeads
    /\ memoryFile = memory

\* a request has been answered in this step
Answered == responses' # responses

\* the response sent in this step
Answer28 == responses'[Len(responses')]

\* the values a signature header carries
CarriedValues(header) ==
    IF header.kind = "bare" THEN {header.value}
    ELSE IF header.kind = "parts" THEN {header.parts[i].v : i \in 1..Len(header.parts)}
    ELSE {}

\* the timestamps a signature header carries
CarriedTimestamps(header) ==
    IF header.kind = "parts"
    THEN {header.parts[i].v : i \in {j \in 1..Len(header.parts) :
                                        header.parts[j].k \in {"t", "timestamp"}}}
    ELSE {}

\* the header carries the HMAC-SHA256 of the request under the server's
\* secret: of the body, or of its timestamp and the body
ValidlySigned(req) ==
    \E value \in CarriedValues(req.signature) :
        \/ value = Hmac(webhookSecret, Null, req.rawBody)
        \/ \E ts \in CarriedTimestamps(req.signature) :
              value = Hmac(webhookSecret, ts, req.rawBody)

\* the timestamp of the header, when it has one, is a number at most the
\* tolerance away from the current time
WithinTolerance(req) ==
    \A ts \in CarriedTimestamps(req.signature) :
        /\ ts.finite
        /\ ts.units >= NowSec - signatureToleranceSeconds
        /\ ts.units <= NowSec + signatureToleranceSeconds

\* the request of this step was processed: answered 200 with the event
\* written to the three files
Processed ==
    /\ Answer28.statusCode = 200
    /\ latestFile' = request'.rawBody
    /\ eventsFile' = Append(eventsFile, request'.rawBody)
    /\ learningFile'.callsCount = readLearning(learningFile).callsCount + 1

\* C28: with ELEVENLABS_WEBHOOK_SECRET set, a POST to /webhooks/elevenlabs
\* is processed only if its signature header carries the HMAC-SHA256 of the
\* request under the secret and its timestamp, when it has one, is within
\* the tolerance of the current time; a request whose signature is missing,
\* wrong or expired is answered 401 and no file is written
C28_SignedRequestsOnly ==
    [][ ( /\ Answered
          /\ webhookSecret # ""
          /\ request'.method = "POST"
          /\ request'.url = WEBHOOK_PATH ) =>
            /\ Processed => (ValidlySigned(request') /\ WithinTolerance(request'))
            /\ ~(ValidlySigned(request') /\ WithinTolerance(request')) =>
                  /\ Answer28.statusCode = 401
                  /\ UNCHANGED <<latestFile, eventsFile, learningFile>>
            /\ Answer28.statusCode # 200 =>
                  UNCHANGED <<latestFile, eventsFile, learningFile>> ]_vars

\* C28 witness: a server with a secret and a tolerance of 300 seconds has
\* answered 401 SIGNATURE_EXPIRED to a request signed 301 seconds ago and
\* then processed a request signed 300 seconds ago
C28_Witness ==
    /\ webhookSecret = "secret"
    /\ signatureToleranceSeconds = 300
    /\ Len(responses) = 2
    /\ responses[1] = Respond(401, "SIGNATURE_EXPIRED")
    /\ responses[2].statusCode = 200
    /\ request.signature =
          Parts(<<Part("t", Finite(NowSec - 300)),
                  Part("v0", Hmac("secret", Finite(NowSec - 300), request.rawBody))>>)
    /\ eventsFile = <<request.rawBody>>
    /\ latestFile = request.rawBody
    /\ learningFile.callsCount = 1

\* C29: a server started with --once=true closes after a request if and
\* only if it answered 200 to it, and exits only after such a request
C29_ExitsAfterValidRequestOnly ==
    [][ /\ (once /\ Answered) => (server' = "closing" <=> Answer28.statusCode = 200)
        /\ server' = "exited" =>
              \E i \in 1..Len(responses) : responses[i].statusCode = 200 ]_vars

\* what the code does in once mode: the server closes after the first
\* request that handleWebhook answers, with 200 or with 400, and does not
\* close after a request answered 404 or 401
C29_ExitsAfterHandledRequest ==
    [][ (once /\ Answered) =>
            (server' = "closing" <=> Answer28.statusCode \in {200, 400}) ]_vars

(***************************************************************************)
(* C31: the best candidate of the round event and the policy entry         *)
(***************************************************************************)
\* main pushes the round event of the current lead (run.mjs 242-254)
EventStep == pc = "voice" /\ Len(events') = Len(events) + 1

\* the event pushed by the step
PushedEvent == events'[Len(events')]

\* the entry that the update of this lead wrote (run.mjs 93); the memory is
\* not touched between the update and the push of the event
WrittenEntry == memory.objectionPolicy[CurrentLead.objectionType]

\* the candidates of the current lead that have the highest score
TopCandidates ==
    { s \in StrategySet :
        \A t \in StrategySet : candidateScores[t].score <= candidateScores[s].score }

\* C31: for every lead and round, the bestCandidateStrategy of the round event
\* is the strategy that the memory update of the same step wrote to
\* objectionPolicy for the lead's objection category, also when several
\* candidates share the highest score.
C31_ReportedBestIsPolicyEntry ==
    [][EventStep => PushedEvent.bestCandidateStrategy = WrittenEntry]_vars

\* C31, what the code keeps: the reported best candidate and the written entry
\* have the same (highest) score, and are the same strategy when one candidate
\* alone has the highest score or when the used strategy is the first of the
\* top candidates in catalog order.
C31_ReportedBestScoresAsPolicyEntry ==
    [][EventStep =>
          /\ PushedEvent.bestCandidateStrategy \in TopCandidates
          /\ WrittenEntry \in TopCandidates
          /\ PushedEvent.bestCandidateScore = candidateScores[WrittenEntry].score
          /\ Cardinality(TopCandidates) = 1
                => PushedEvent.bestCandidateStrategy = WrittenEntry
          /\ strategy = bestCandidate(candidateScores)
                => PushedEvent.bestCandidateStrategy = WrittenEntry]_vars

\* a tie on the highest score in which the event names the first top candidate
\* and the policy entry keeps the used one
C31_Witness ==
    /\ pc = "lead"
    /\ Len(events) > 0
    /\ \E i \in 1..Len(leads) :
          /\ events[Len(events)].leadId = leads[i].id
          /\ events[Len(events)].bestCandidateStrategy
                # memory.objectionPolicy[leads[i].objectionType]
          /\ events[Len(events)].strategy = memory.objectionPolicy[leads[i].objectionType]

(***************************************************************************)
(* C32: the memory file is written once, after the last round              *)
(***************************************************************************)
\* C32: the memory file is written only once per run, after the last round
\* has completed, with the memory as the rounds left it; until then, and in
\* a run that aborts before (an exception from the dispatcher), the file
\* holds exactly what was loaded, with none of the completed rounds' updates.
C32_PersistedOnceAtEnd ==
    /\ [](pc # "done" => memoryFile = loaded)
    /\ [][ memoryFile' # memoryFile =>
              /\ pc = "epoch"
              /\ epoch > epochs
              /\ Len(rounds) = epochs
              /\ memoryFile' = memory
              /\ pc' = "done" ]_vars

\* C32 witness: the dispatcher threw in round 2; round 1 is complete and has
\* changed the memory, and the file still holds the loaded memory
C32_Witness ==
    /\ pc = "fatal"
    /\ Len(rounds) = 1
    /\ epoch = 2
    /\ memory.runs = loaded.runs + 1
    /\ Len(memory.history) > Len(loaded.history)
    /\ memory # loaded
    /\ memoryFile = loaded

\* C32 witness of the write: a run of two rounds has ended and the file
\* holds the memory of both rounds
C32_WitnessWritten ==
    /\ pc = "done"
    /\ epochs = 2
    /\ Len(leads) >= 1
    /\ memoryFile = memory
    /\ memoryFile # loaded
    /\ memoryFile.runs = loaded.runs + 2

(***************************************************************************)
(* C33: selection follows the latest lead of the same category             *)
(***************************************************************************)
\* the events of the leads of the given category in a sequence of events
OfCategory(evs, category) ==
    {i \in 1..Len(evs) : evs[i].objectionType = category}

Latest(S) == CHOOSE i \in S : \A j \in S : j <= i

\* a lead of the given category was processed before the current lead, in
\* this round or in the round before (every round processes every lead)
HasPredecessor(category) ==
    \/ OfCategory(events, category) # {}
    \/ Len(rounds) > 0 /\ OfCategory(rounds[Len(rounds)].events, category) # {}

\* the event of the most recently processed lead of the category: one of
\* this round when there is one, else the last one of the round before
LatestOfCategory(category) ==
    IF OfCategory(events, category) # {}
    THEN events[Latest(OfCategory(events, category))]
    ELSE rounds[Len(rounds)].events[
             Latest(OfCategory(rounds[Len(rounds)].events, category))]

LeadOf(ev) == leads[CHOOSE i \in 1..Len(leads) : leads[i].id = ev.leadId]

CandidatesOf(lead) ==
    [s \in StrategySet |->
        evaluateLeadAdaptive(evaluatorConfig, lead, s, buildResponse(s, lead),
                             evaluator[lead.id][s])]

\* the best-for-lead strategy that the update of the event's lead determined
\* from the strategy it used and its candidate map (run.mjs 85-92)
BestWrittenBy(ev) ==
    bestForLead(ev.strategy, CandidatesOf(LeadOf(ev))[ev.strategy], CandidatesOf(LeadOf(ev)))

\* every category of the lead set has been updated in this run
AllCategoriesUpdated ==
    \A i \in 1..Len(leads) : HasPredecessor(leads[i].objectionType)

\* pickBestStrategy returns at its first return, not from the averages
EntryUsed ==
    /\ HasEntry(memory, CurrentLead.objectionType)
    /\ memory.objectionPolicy[CurrentLead.objectionType] \in StrategySet
    /\ strategy = memory.objectionPolicy[CurrentLead.objectionType]

\* C33: in a post-warm-up round the strategy selected for a lead is the
\* best-for-lead strategy written by the most recently processed lead of the
\* same category: a lead processed earlier in the same round when there is
\* one, else the last such lead of the round before; once every category of
\* the lead set has been updated, the selection is never made from the
\* averages; and objectionPolicy entries are never removed.
C33_FollowsLatestOfCategory ==
    /\ []( (Selected /\ epoch > warmupEpochs) =>
              /\ HasPredecessor(CurrentLead.objectionType) =>
                    /\ strategy = BestWrittenBy(LatestOfCategory(CurrentLead.objectionType))
                    /\ EntryUsed
              /\ AllCategoriesUpdated => EntryUsed )
    /\ [][ DOMAIN memory.objectionPolicy \subseteq DOMAIN memory'.objectionPolicy ]_vars

\* C33 witness: in round 2 the third lead (price) is given what the first
\* lead (price) wrote earlier in round 2, which is not what the third lead
\* itself wrote in round 1
C33_Witness ==
    /\ Selected
    /\ epoch = 2
    /\ warmupEpochs = 1
    /\ leadIdx = 3
    /\ CurrentLead.objectionType = leads[1].objectionType
    /\ strategy = BestWrittenBy(events[1])
    /\ strategy # BestWrittenBy(rounds[1].events[3])

\* C33 witness: the first lead of a round is given what the last lead of its
\* category wrote in the round before
C33_WitnessEarlierRound ==
    /\ Selected
    /\ epoch = 2
    /\ warmupEpochs = 1
    /\ leadIdx = 1
    /\ strategy = BestWrittenBy(rounds[1].events[3])
    /\ strategy # BestWrittenBy(rounds[1].events[1])

\* C33 witness: before its category is updated, a lead whose loaded entry
\* names no catalog strategy is selected from the averages
C33_WitnessFallbackBeforeUpdate ==
    /\ Selected
    /\ epoch > warmupEpochs
    /\ ~HasPredecessor(CurrentLead.objectionType)
    /\ HasEntry(memory, CurrentLead.objectionType)
    /\ strategy # memory.objectionPolicy[CurrentLead.objectionType]

(***************************************************************************)
(* C34: the learning aggregate counts every accepted event                 *)
(***************************************************************************)
\* no handler stands at an await
Quiescent == \A i \in 1..Len(handlers) : handlers[i].at = "done"

\* the number of requests answered 200
Accepted == Cardinality({i \in 1..Len(responses) : responses[i].statusCode = 200})

RECURSIVE SumOver(_, _)
SumOver(f, S) ==
    IF S = {} THEN 0
    ELSE LET k == CHOOSE k \in S : TRUE IN f[k] + SumOver(f, S \ {k})

\* the callsCount values under byLeadId, added up
CallsByLead(learning) == SumOver(learning.byLeadId, DOMAIN learning.byLeadId)

\* C34: when the server, started without a learning file, has answered its
\* requests, n of them with 200, the learning file has callsCount = n, the
\* callsCount values under byLeadId add up to n and the event log has n
\* lines, also when several requests were in flight at the same time.
C34_EveryAcceptedEventCounted ==
    Quiescent =>
        /\ readLearning(learningFile).callsCount = Accepted
        /\ CallsByLead(readLearning(learningFile)) = Accepted
        /\ Len(eventsFile) = Accepted

\* C34, what the code keeps with requests in flight: the event log has one
\* line per accepted request, the counts under byLeadId add up to callsCount,
\* and callsCount is at least 1 and at most the number of accepted requests
C34_LogCompleteCountsConsistent ==
    /\ CallsByLead(readLearning(learningFile)) = readLearning(learningFile).callsCount
    /\ Quiescent =>
          /\ Len(eventsFile) = Accepted
          /\ readLearning(learningFile).callsCount <= Accepted
          /\ Accepted > 0 => readLearning(learningFile).callsCount >= 1

\* C34 lost update: two requests were answered 200 and the learning file
\* counts one call
C34_Witness ==
    /\ Quiescent
    /\ Accepted = 2
    /\ Len(eventsFile) = 2
    /\ learningFile.callsCount = 1

(***************************************************************************)
(* C35: dispatcher calls and the voice follow-up list                      *)
(***************************************************************************)
\* round and lead of the entries of a sequence of calls or follow-ups
Keys(entries) ==
    [i \in 1..Len(entries) |-> [epoch |-> entries[i].epoch, leadId |-> entries[i].leadId]]

\* the position of a lead in the input
PositionOf(leadId) == CHOOSE i \in 1..Len(leads) : leads[i].id = leadId

\* the entries are in processing order, and no round and lead comes twice
InProcessingOrder(keys) ==
    \A i, j \in 1..Len(keys) :
        i < j => \/ keys[i].epoch < keys[j].epoch
                 \/ /\ keys[i].epoch = keys[j].epoch
                    /\ PositionOf(keys[i].leadId) < PositionOf(keys[j].leadId)

\* the escalation decision for the current lead
Decision ==
    shouldEscalateToVoice(CurrentLead, candidateScores[strategy], epoch, minEpochForVoice)

\* C35: the dispatcher is called at most once per lead and round, and only
\* when the voice channel is enabled and the escalation decision is true; the
\* voice follow-up list of a run that writes its report has exactly one entry
\* per dispatcher call, in processing order, and no other entry (a call that
\* throws ends the run before its entry); with the decision true and the voice
\* channel disabled the event records a non-attempt with reason
\* VOICE_CHANNEL_DISABLED, and without escalation one with reason NO_ESCALATION.
C35_OneFollowupPerDispatch ==
    /\ []( /\ InProcessingOrder(Keys(dispatcherCalls))
           /\ pc # "fatal" => Keys(voiceFollowups) = dispatcherCalls
           /\ pc = "fatal" =>
                 Keys(voiceFollowups) = SubSeq(dispatcherCalls, 1, Len(dispatcherCalls) - 1) )
    /\ [][ EscalationStep =>
             /\ dispatcherCalls' # dispatcherCalls <=> (voiceChannelEnabled /\ Decision)
             /\ dispatcherCalls' # dispatcherCalls =>
                   dispatcherCalls' = Append(dispatcherCalls,
                                             [epoch |-> epoch, leadId |-> CurrentLead.id])
             /\ pc' # "fatal" =>
                   /\ RecordedVoice.attempted <=> (voiceChannelEnabled /\ Decision)
                   /\ ~Decision =>
                         RecordedVoice = [attempted |-> FALSE, reason |-> "NO_ESCALATION"]
                   /\ (Decision /\ ~voiceChannelEnabled) =>
                         RecordedVoice = [attempted |-> FALSE,
                                          reason |-> "VOICE_CHANNEL_DISABLED"] ]_vars
    /\ [][ ~EscalationStep => UNCHANGED <<dispatcherCalls, voiceFollowups>> ]_vars

\* C35 witness: a run of two rounds over three leads has ended; in each
\* round the dispatcher was called for the first and the third lead and not
\* for the second, and the list holds the four calls in that order
C35_Witness ==
    /\ pc = "done"
    /\ voiceChannelEnabled
    /\ Len(leads) = 3
    /\ Len(rounds) = 2
    /\ Keys(voiceFollowups) =
          << [epoch |-> 1, leadId |-> leads[1].id], [epoch |-> 1, leadId |-> leads[3].id],
             [epoch |-> 2, leadId |-> leads[1].id], [epoch |-> 2, leadId |-> leads[3].id] >>
    /\ dispatcherCalls = Keys(voiceFollowups)
    /\ rounds[2].events[2].voice = [attempted |-> FALSE, reason |-> "NO_ESCALATION"]

\* C35 witness: with --voice=off an escalated lead has a non-attempt with
\* reason VOICE_CHANNEL_DISABLED, and there is no call and no follow-up
C35_WitnessDisabled ==
    /\ pc = "done"
    /\ ~voiceChannelEnabled
    /\ Len(rounds) >= 1
    /\ rounds[1].events[1].voice = [attempted |-> FALSE, reason |-> "VOICE_CHANNEL_DISABLED"]
    /\ dispatcherCalls = << >>
    /\ voiceFollowups = << >>

====
